---- MODULE Spec2Model ----
(***************************************************************************)
(* Trajectory reconstruction engine of PacketSimulator (src2/estimator):   *)
(* the multi-pass driver estimate_trajectories, one pass cluster_records,  *)
(* the single-pass extractor _cluster_one_group with the candidate judge   *)
(* and the forward search, and the stay aggregator.                        *)
(*                                                                         *)
(* Timestamps are whole seconds.  walker_speed and impossible_factor are   *)
(* the rationals 7/5 (= 1.4) and 4/5 (= 0.8); the comparison               *)
(*   time_diff < distance / speed * factor                                 *)
(* is evaluated exactly on squares, so no square root is taken.            *)
(* A record is identified by its position in its group's list.             *)
(***************************************************************************)
EXTENDS Integers, Sequences, FiniteSets, TLC

\* ------------------------------------------------------------------ bounds
MaxRecs == 4
MaxPasses == 2
MaxSideRecs == 3
MaxRaw == 3

\* ------------------------------------------------------- program constants
\* Variant of MAX_STAY_DURATION under which no later record at the same
\* detector continues a stay.
NO_STAY_DURATION == 0 - 1
MAX_STAY_DURATION == 900
SEQ_ANOMALY_THRESHOLD == 64
WalkerSpeedNum == 7
WalkerSpeedDen == 5
ImpossibleFactorNum == 4
ImpossibleFactorDen == 5

\* --------------------------------------------------------- input universe
\* Detector registry {detector_id -> (x, y)}.
Detectors == [A |-> <<0, 0>>, B |-> <<140, 0>>, C |-> <<0, 140>>]
DetectorIds == DOMAIN Detectors
\* Both lookups config.detectors[id1], config.detectors[id2] succeed.
HasDetectors(id1, id2) == id1 \in DetectorIds /\ id2 \in DetectorIds
Times == {0, 80, 950}
GroupKey == "g1"
OtherKey == "g2"
TwinKey == "g3"

\* ------------------------------------------------------------ pure helpers
Abs(n) == IF n < 0 THEN -n ELSE n

\* Squared euclidean distance of two detectors (the root is taken implicitly
\* by IsImpossibleMovement, which compares squares).
DistanceSquared(det1, det2) ==
    (det2[1] - det1[1]) * (det2[1] - det1[1])
  + (det2[2] - det1[2]) * (det2[2] - det1[2])

\* Variant of IsImpossibleMovement that counts a move taking exactly the
\* threshold as impossible too; the comment below describes the original.
\* time_diff < calculate_min_travel_time(det1, det2, speed) * impossible_factor
\* with speed = speed_num / WalkerSpeedDen and
\* factor = ImpossibleFactorNum / ImpossibleFactorDen.  For a positive speed
\*   time_diff * sNum * fDen < sqrt(d2) * sDen * fNum;
\* for any other speed calculate_min_travel_time returns 0.0.
IsImpossibleMovementInclusive(time_diff, det1, det2, speed_num) ==
    LET lhs == time_diff * speed_num * ImpossibleFactorDen
        k   == WalkerSpeedDen * ImpossibleFactorNum
    IN  IF speed_num <= 0 THEN time_diff <= 0
        ELSE IF lhs < 0 THEN TRUE
        ELSE lhs * lhs <= DistanceSquared(det1, det2) * k * k

IsImpossibleMovement(time_diff, det1, det2, speed_num) ==
    LET lhs == time_diff * speed_num * ImpossibleFactorDen
        k   == WalkerSpeedDen * ImpossibleFactorNum
    IN  IF speed_num <= 0 THEN time_diff < 0
        ELSE IF lhs < 0 THEN TRUE
        ELSE lhs * lhs < DistanceSquared(det1, det2) * k * k

\* Variant of IsSequenceAnomaly that flags a sequence jump whatever the time.
IsSequenceAnomalySeqOnly(rec1, rec2, time_diff, det1, det2, speed_num) ==
    Abs(rec2.sequence_number - rec1.sequence_number) > SEQ_ANOMALY_THRESHOLD

\* is_sequence_anomaly(record1, record2, time_diff, min_travel_time, factor)
IsSequenceAnomaly(rec1, rec2, time_diff, det1, det2, speed_num) ==
    /\ Abs(rec2.sequence_number - rec1.sequence_number) > SEQ_ANOMALY_THRESHOLD
    /\ IsImpossibleMovement(time_diff, det1, det2, speed_num)

\* Last element of a route, or "" (None) when the route is empty.
RouteTail(route) == IF route = <<>> THEN "" ELSE route[Len(route)]

InSeq(x, s) == \E i \in 1..Len(s) : s[i] = x

\* "".join(route_sequence)
RECURSIVE Join(_)
Join(s) == IF s = <<>> THEN "" ELSE s[1] \o Join(Tail(s))

\* Variant of ClusterIdOf that numbers the clusters of a group from zero.
ClusterIdFromZero(g, n) == g \o "_cluster" \o ToString(n - 1)

\* Variant of ClusterIdOf that leaves the counter out of the id.
ClusterIdWithoutNumber(g, n) == g \o "_cluster"

\* f"{integrated_hash}_cluster{n}"
ClusterIdOf(g, n) == g \o "_cluster" \o ToString(n)

\* f"est_traj_{n}"
TrajectoryIdOf(n) == "est_traj_" \o ToString(n)

\* Number of records with is_judged = True in one list.
RECURSIVE JudgedIn(_)
JudgedIn(recs) ==
    IF recs = <<>> THEN 0
    ELSE (IF recs[1].is_judged THEN 1 ELSE 0) + JudgedIn(Tail(recs))

\* ---------------------------------------------------------- Payload Grouping
\* s.startswith(p)
StartsWith(s, p) == Len(s) >= Len(p) /\ SubSeq(s, 1, Len(p)) = p

\* Positions at which p occurs in s.
Occurrences(s, p) ==
    {i \in 1..(Len(s) - Len(p) + 1) : SubSeq(s, i, i + Len(p) - 1) = p}

\* p in s
Contains(s, p) == Occurrences(s, p) # {}

\* s.split(sep)[0]
SplitFirst(s, sep) ==
    IF Occurrences(s, sep) = {} THEN s
    ELSE LET first == CHOOSE i \in Occurrences(s, sep) :
                          \A j \in Occurrences(s, sep) : i <= j
         IN  SubSeq(s, 1, first - 1)

\* Variant of IntegrateSimilarPayloads that merges nothing.
KeepHashedId(hashed_id) == hashed_id

\* integrate_similar_payloads(hashed_id)
IntegrateSimilarPayloads(hashed_id) ==
    IF /\ StartsWith(hashed_id, "C_")
       /\ (Contains(hashed_id, "_base_hash") \/ Contains(hashed_id, "_sub_hash"))
    THEN SplitFirst(SplitFirst(hashed_id, "_base_"), "_sub_") \o "_integrated"
    ELSE hashed_id

\* list.sort(key = timestamp): a stable sort, built by insertion.
RECURSIVE InsertByTimestamp(_, _)
InsertByTimestamp(sorted, rec) ==
    IF sorted = <<>> THEN <<rec>>
    ELSE LET last == sorted[Len(sorted)]
         IN  IF rec.timestamp < last.timestamp
             THEN Append(InsertByTimestamp(SubSeq(sorted, 1, Len(sorted) - 1),
                                           rec), last)
             ELSE Append(sorted, rec)

RECURSIVE SortByTimestamp(_)
SortByTimestamp(recs) ==
    IF recs = <<>> THEN <<>>
    ELSE InsertByTimestamp(SortByTimestamp(SubSeq(recs, 1, Len(recs) - 1)),
                           recs[Len(recs)])

\* ------------------------------------------------------------- ClusterState
\* ClusterState before a cluster is seeded / after it has been handed over.
NoState == [cluster_id |-> "", cluster_records |-> <<>>,
            route_sequence |-> <<>>, prev_record |-> 0]

\* Variant of AddRecord that extends the route for the seed only.
AddRecordSeedOnlyRoute(st, rec, i, add_to_route) ==
    [cluster_id      |-> st.cluster_id,
     cluster_records |-> Append(st.cluster_records, i),
     route_sequence  |->
        IF add_to_route /\ st.route_sequence = <<>>
        THEN Append(st.route_sequence, rec.detector_id)
        ELSE st.route_sequence,
     prev_record     |-> i]

\* Variant of AddRecord that appends the detector to the route on every call.
AddRecordAlwaysAppends(st, rec, i, add_to_route) ==
    [cluster_id      |-> st.cluster_id,
     cluster_records |-> Append(st.cluster_records, i),
     route_sequence  |-> Append(st.route_sequence, rec.detector_id),
     prev_record     |-> i]

\* Variant of AddRecord that moves prev_record only when the route is extended.
AddRecordStalePrev(st, rec, i, add_to_route) ==
    [cluster_id      |-> st.cluster_id,
     cluster_records |-> Append(st.cluster_records, i),
     route_sequence  |->
        IF add_to_route /\ (st.route_sequence = <<>>
                            \/ rec.detector_id # RouteTail(st.route_sequence))
        THEN Append(st.route_sequence, rec.detector_id)
        ELSE st.route_sequence,
     prev_record     |-> IF add_to_route THEN i ELSE st.prev_record]

\* ClusterState.add_record, the part that updates the cluster: append the
\* record (its index i in the group list), extend the route when asked to and
\* the detector differs from the route tail, make it the previous record.
AddRecord(st, rec, i, add_to_route) ==
    [cluster_id      |-> st.cluster_id,
     cluster_records |-> Append(st.cluster_records, i),
     route_sequence  |->
        IF add_to_route /\ (st.route_sequence = <<>>
                            \/ rec.detector_id # RouteTail(st.route_sequence))
        THEN Append(st.route_sequence, rec.detector_id)
        ELSE st.route_sequence,
     prev_record     |-> i]

\* Variant of MarkJudged that sets the judged flag and leaves the cluster id.
MarkJudgedWithoutId(recs, i, cid) ==
    [recs EXCEPT ![i] = [@ EXCEPT !.is_judged = TRUE]]

\* ClusterState.add_record, the part that annotates the record.
MarkJudged(recs, i, cid) ==
    [recs EXCEPT ![i] = [@ EXCEPT !.is_judged = TRUE, !.cluster_id = cid]]

\* ------------------------------------------------------------ Candidate Judge
\* _judge_candidate_record(state, candidate_record, config)
\* Variant of JudgeCandidateRecord that accepts every move to another
\* detector without the feasibility test.
JudgeCandidateRecordNoFeasibility(st, recs, cand, config) ==
    LET prev == recs[st.prev_record]
        current_detector == RouteTail(st.route_sequence)
        time_diff == cand.timestamp - prev.timestamp
    IN  IF cand.detector_id = current_detector
        THEN IF config.allow_long_stays THEN "ADD_AS_STAY"
             ELSE IF time_diff <= MAX_STAY_DURATION THEN "ADD_AS_STAY"
             ELSE "FORWARD_SEARCH"
        ELSE IF ~HasDetectors(prev.detector_id, cand.detector_id)
             THEN "KEY_ERROR"
        ELSE "ADD_AS_MOVE"

\* Variant of JudgeCandidateRecord whose stay test excludes the boundary.
JudgeCandidateRecordStrictStay(st, recs, cand, config) ==
    LET prev == recs[st.prev_record]
        current_detector == RouteTail(st.route_sequence)
        time_diff == cand.timestamp - prev.timestamp
    IN  IF cand.detector_id = current_detector
        THEN IF config.allow_long_stays THEN "ADD_AS_STAY"
             ELSE IF time_diff < MAX_STAY_DURATION THEN "ADD_AS_STAY"
             ELSE "FORWARD_SEARCH"
        ELSE IF ~HasDetectors(prev.detector_id, cand.detector_id)
             THEN "KEY_ERROR"
        ELSE IF IsImpossibleMovement(time_diff, Detectors[prev.detector_id],
                                     Detectors[cand.detector_id],
                                     config.walker_speed)
             THEN "FORWARD_SEARCH"
             ELSE "ADD_AS_MOVE"

\* config.detectors[...] of an id the registry lacks raises KeyError, which
\* is the result "KEY_ERROR" here.
JudgeCandidateRecord(st, recs, cand, config) ==
    LET prev == recs[st.prev_record]
        current_detector == RouteTail(st.route_sequence)
        time_diff == cand.timestamp - prev.timestamp
    IN  IF cand.detector_id = current_detector
        THEN IF config.allow_long_stays THEN "ADD_AS_STAY"
             ELSE IF time_diff <= MAX_STAY_DURATION THEN "ADD_AS_STAY"
             ELSE "FORWARD_SEARCH"
        ELSE IF ~HasDetectors(prev.detector_id, cand.detector_id)
             THEN "KEY_ERROR"
        ELSE IF IsImpossibleMovement(time_diff, Detectors[prev.detector_id],
                                     Detectors[cand.detector_id],
                                     config.walker_speed)
             THEN "FORWARD_SEARCH"
             ELSE "ADD_AS_MOVE"

\* ------------------------------------------------------------ Forward Search
\* Variant of EvaluateScanRecord whose feasibility test counts the elapsed
\* time twice, so that it is more lenient than the judge's.
EvaluateScanRecordDoubledGap(st, recs, scan, config) ==
    LET prev == recs[st.prev_record]
        current_detector == RouteTail(st.route_sequence)
        time_diff == scan.timestamp - prev.timestamp
    IN  IF scan.is_judged THEN "SKIP"
        ELSE IF scan.detector_id = current_detector
        THEN IF config.allow_long_stays THEN "ADD_AND_CONTINUE"
             ELSE IF time_diff <= MAX_STAY_DURATION THEN "ADD_AND_CONTINUE"
             ELSE "SKIP"
        ELSE IF InSeq(scan.detector_id, st.route_sequence) THEN "SKIP"
        ELSE IF ~HasDetectors(prev.detector_id, scan.detector_id)
             THEN "KEY_ERROR"
        ELSE IF IsSequenceAnomaly(prev, scan, time_diff,
                                  Detectors[prev.detector_id],
                                  Detectors[scan.detector_id],
                                  config.walker_speed)
             THEN "SKIP"
        ELSE IF IsImpossibleMovement(2 * time_diff,
                                     Detectors[prev.detector_id],
                                     Detectors[scan.detector_id],
                                     config.walker_speed)
             THEN "SKIP"
        ELSE "FOUND"

\* Variant of EvaluateScanRecord without the used-record check.
EvaluateScanRecordNoUsedCheck(st, recs, scan, config) ==
    LET prev == recs[st.prev_record]
        current_detector == RouteTail(st.route_sequence)
        time_diff == scan.timestamp - prev.timestamp
    IN  IF scan.detector_id = current_detector
        THEN IF config.allow_long_stays THEN "ADD_AND_CONTINUE"
             ELSE IF time_diff <= MAX_STAY_DURATION THEN "ADD_AND_CONTINUE"
             ELSE "SKIP"
        ELSE IF InSeq(scan.detector_id, st.route_sequence) THEN "SKIP"
        ELSE IF ~HasDetectors(prev.detector_id, scan.detector_id)
             THEN "KEY_ERROR"
        ELSE IF IsSequenceAnomaly(prev, scan, time_diff,
                                  Detectors[prev.detector_id],
                                  Detectors[scan.detector_id],
                                  config.walker_speed)
             THEN "SKIP"
        ELSE IF IsImpossibleMovement(time_diff, Detectors[prev.detector_id],
                                     Detectors[scan.detector_id],
                                     config.walker_speed)
             THEN "SKIP"
        ELSE "FOUND"

\* Variant of EvaluateScanRecord that takes the first unjudged record at a
\* detector outside the route as the bridge target, feasible or not.
EvaluateScanRecordNoFeasibility(st, recs, scan, config) ==
    LET prev == recs[st.prev_record]
        current_detector == RouteTail(st.route_sequence)
        time_diff == scan.timestamp - prev.timestamp
    IN  IF scan.is_judged THEN "SKIP"
        ELSE IF scan.detector_id = current_detector
        THEN IF config.allow_long_stays THEN "ADD_AND_CONTINUE"
             ELSE IF time_diff <= MAX_STAY_DURATION THEN "ADD_AND_CONTINUE"
             ELSE "SKIP"
        ELSE IF InSeq(scan.detector_id, st.route_sequence) THEN "SKIP"
        ELSE IF ~HasDetectors(prev.detector_id, scan.detector_id)
             THEN "KEY_ERROR"
        ELSE "FOUND"

\* Variant of EvaluateScanRecord whose stay test excludes the boundary.
EvaluateScanRecordStrictStay(st, recs, scan, config) ==
    LET prev == recs[st.prev_record]
        current_detector == RouteTail(st.route_sequence)
        time_diff == scan.timestamp - prev.timestamp
    IN  IF scan.is_judged THEN "SKIP"
        ELSE IF scan.detector_id = current_detector
        THEN IF config.allow_long_stays THEN "ADD_AND_CONTINUE"
             ELSE IF time_diff < MAX_STAY_DURATION THEN "ADD_AND_CONTINUE"
             ELSE "SKIP"
        ELSE IF InSeq(scan.detector_id, st.route_sequence) THEN "SKIP"
        ELSE IF ~HasDetectors(prev.detector_id, scan.detector_id)
             THEN "KEY_ERROR"
        ELSE IF IsSequenceAnomaly(prev, scan, time_diff,
                                  Detectors[prev.detector_id],
                                  Detectors[scan.detector_id],
                                  config.walker_speed)
             THEN "SKIP"
        ELSE IF IsImpossibleMovement(time_diff, Detectors[prev.detector_id],
                                     Detectors[scan.detector_id],
                                     config.walker_speed)
             THEN "SKIP"
        ELSE "FOUND"

\* Variant of EvaluateScanRecord that exempts a record with a sequence jump
\* from the feasibility test.
EvaluateScanRecordSeqExempt(st, recs, scan, config) ==
    LET prev == recs[st.prev_record]
        current_detector == RouteTail(st.route_sequence)
        time_diff == scan.timestamp - prev.timestamp
    IN  IF scan.is_judged THEN "SKIP"
        ELSE IF scan.detector_id = current_detector
        THEN IF config.allow_long_stays THEN "ADD_AND_CONTINUE"
             ELSE IF time_diff <= MAX_STAY_DURATION THEN "ADD_AND_CONTINUE"
             ELSE "SKIP"
        ELSE IF InSeq(scan.detector_id, st.route_sequence) THEN "SKIP"
        ELSE IF ~HasDetectors(prev.detector_id, scan.detector_id)
             THEN "KEY_ERROR"
        ELSE IF Abs(scan.sequence_number - prev.sequence_number)
                   > SEQ_ANOMALY_THRESHOLD
             THEN "FOUND"
        ELSE IF IsImpossibleMovement(time_diff, Detectors[prev.detector_id],
                                     Detectors[scan.detector_id],
                                     config.walker_speed)
             THEN "SKIP"
        ELSE "FOUND"

\* Variant of EvaluateScanRecord without the loop-avoidance check.
EvaluateScanRecordNoLoopCheck(st, recs, scan, config) ==
    LET prev == recs[st.prev_record]
        current_detector == RouteTail(st.route_sequence)
        time_diff == scan.timestamp - prev.timestamp
    IN  IF scan.is_judged THEN "SKIP"
        ELSE IF scan.detector_id = current_detector
        THEN IF config.allow_long_stays THEN "ADD_AND_CONTINUE"
             ELSE IF time_diff <= MAX_STAY_DURATION THEN "ADD_AND_CONTINUE"
             ELSE "SKIP"
        ELSE IF ~HasDetectors(prev.detector_id, scan.detector_id)
             THEN "KEY_ERROR"
        ELSE IF IsSequenceAnomaly(prev, scan, time_diff,
                                  Detectors[prev.detector_id],
                                  Detectors[scan.detector_id],
                                  config.walker_speed)
             THEN "SKIP"
        ELSE IF IsImpossibleMovement(time_diff, Detectors[prev.detector_id],
                                     Detectors[scan.detector_id],
                                     config.walker_speed)
             THEN "SKIP"
        ELSE "FOUND"

\* _evaluate_scan_record(state, scan_record, config)
EvaluateScanRecord(st, recs, scan, config) ==
    LET prev == recs[st.prev_record]
        current_detector == RouteTail(st.route_sequence)
        time_diff == scan.timestamp - prev.timestamp
    IN  IF scan.is_judged THEN "SKIP"
        ELSE IF scan.detector_id = current_detector
        THEN IF config.allow_long_stays THEN "ADD_AND_CONTINUE"
             ELSE IF time_diff <= MAX_STAY_DURATION THEN "ADD_AND_CONTINUE"
             ELSE "SKIP"
        ELSE IF InSeq(scan.detector_id, st.route_sequence) THEN "SKIP"
        ELSE IF ~HasDetectors(prev.detector_id, scan.detector_id)
             THEN "KEY_ERROR"
        ELSE IF IsSequenceAnomaly(prev, scan, time_diff,
                                  Detectors[prev.detector_id],
                                  Detectors[scan.detector_id],
                                  config.walker_speed)
             THEN "SKIP"
        ELSE IF IsImpossibleMovement(time_diff, Detectors[prev.detector_id],
                                     Detectors[scan.detector_id],
                                     config.walker_speed)
             THEN "SKIP"
        ELSE "FOUND"

\* Variant of ResumeIndex that leaves out the record behind the bridge target.
ResumeIndexSkipsNext(trigger_idx, found_idx) == found_idx + 2

\* Variant of ResumeIndex that resumes at the triggering record itself.
ResumeIndexAtTrigger(trigger_idx, found_idx) == trigger_idx

\* Variant of ResumeIndex that resumes right after the triggering record.
ResumeIndexAfterTrigger(trigger_idx, found_idx) == trigger_idx + 1

\* Index at which the main loop resumes after the search started at
\* trigger_idx returned found_idx and the bridge target was accepted.
ResumeIndex(trigger_idx, found_idx) == found_idx + 1

\* Variant of CandidateAction that hands judged candidates to the judge too.
CandidateActionNoUsedCheck(st, recs, cand, config) ==
    JudgeCandidateRecord(st, recs, cand, config)

\* One iteration of the main loop of _cluster_one_group up to the decision:
\* a judged candidate is stepped over, any other is handed to the judge.
CandidateAction(st, recs, cand, config) ==
    IF cand.is_judged THEN "SKIP_JUDGED"
    ELSE JudgeCandidateRecord(st, recs, cand, config)

\* Variant of FirstUnjudgedFrom that looks at the last record only.
LastIfUnjudged(recs, i) ==
    IF recs # <<>> /\ ~recs[Len(recs)].is_judged
    THEN Len(recs) ELSE Len(recs) + 1

\* Variant of FirstUnjudgedFrom that starts at the given index whatever the
\* record there.
FirstIndexFrom(recs, i) == i

\* First index of an unjudged record, Len(recs) + 1 when there is none.
RECURSIVE FirstUnjudgedFrom(_, _)
FirstUnjudgedFrom(recs, i) ==
    IF i <= Len(recs) /\ recs[i].is_judged
    THEN FirstUnjudgedFrom(recs, i + 1)
    ELSE i

\* ------------------------------------------------------------ Stay Aggregator
\* Keys of records_by_detector in insertion order (first occurrence).
RECURSIVE DetectorKeys(_)
DetectorKeys(crecs) ==
    IF crecs = <<>> THEN <<>>
    ELSE LET front == DetectorKeys(SubSeq(crecs, 1, Len(crecs) - 1))
             d     == crecs[Len(crecs)].detector_id
         IN  IF InSeq(d, front) THEN front ELSE Append(front, d)

TimestampsAt(crecs, d) ==
    {crecs[i].timestamp : i \in {j \in 1..Len(crecs) : crecs[j].detector_id = d}}

MinOf(S) == CHOOSE m \in S : \A x \in S : m <= x
MaxOf(S) == CHOOSE m \in S : \A x \in S : m >= x

\* Variant of InsertByFirstDetection that puts a key in front of the keys with
\* the same earliest timestamp (a sort that is not stable).
RECURSIVE InsertByFirstDetectionUnstable(_, _, _)
InsertByFirstDetectionUnstable(sorted, d, crecs) ==
    IF sorted = <<>> THEN <<d>>
    ELSE LET last == sorted[Len(sorted)]
         IN  IF MinOf(TimestampsAt(crecs, d)) <= MinOf(TimestampsAt(crecs, last))
             THEN Append(InsertByFirstDetectionUnstable(
                             SubSeq(sorted, 1, Len(sorted) - 1), d, crecs), last)
             ELSE Append(sorted, d)

\* sorted(keys, key = earliest timestamp): a stable sort, built by insertion.
RECURSIVE InsertByFirstDetection(_, _, _)
InsertByFirstDetection(sorted, d, crecs) ==
    IF sorted = <<>> THEN <<d>>
    ELSE LET last == sorted[Len(sorted)]
         IN  IF MinOf(TimestampsAt(crecs, d)) < MinOf(TimestampsAt(crecs, last))
             THEN Append(InsertByFirstDetection(
                             SubSeq(sorted, 1, Len(sorted) - 1), d, crecs), last)
             ELSE Append(sorted, d)

RECURSIVE DetectorOrder(_, _)
DetectorOrder(keys, crecs) ==
    IF keys = <<>> THEN <<>>
    ELSE InsertByFirstDetection(
             DetectorOrder(SubSeq(keys, 1, Len(keys) - 1), crecs),
             keys[Len(keys)], crecs)

\* Variant of CreateEstimatedStays that closes every stay at its first
\* detection.
CreateEstimatedStaysFirstOnly(crecs) ==
    LET order == DetectorOrder(DetectorKeys(crecs), crecs)
    IN  [k \in 1..Len(order) |->
           LET ts == TimestampsAt(crecs, order[k])
           IN  [detector_id     |-> order[k],
                first_detection |-> MinOf(ts),
                last_detection  |-> MinOf(ts),
                estimated_duration_seconds |-> 0,
                num_detections  |->
                    Cardinality({j \in 1..Len(crecs) :
                                   crecs[j].detector_id = order[k]})]]

\* _create_estimated_stays(cluster_records, detectors)
CreateEstimatedStays(crecs) ==
    LET order == DetectorOrder(DetectorKeys(crecs), crecs)
    IN  [k \in 1..Len(order) |->
           LET ts == TimestampsAt(crecs, order[k])
           IN  [detector_id     |-> order[k],
                first_detection |-> MinOf(ts),
                last_detection  |-> MaxOf(ts),
                estimated_duration_seconds |-> MaxOf(ts) - MinOf(ts),
                num_detections  |->
                    Cardinality({j \in 1..Len(crecs) :
                                   crecs[j].detector_id = order[k]})]]

\* ---------------------------------------------------------------- variables
VARIABLES
    group_keys,        \* keys of grouped_records in dict iteration order
    records,           \* grouped_records: key -> time-sorted list of records
    allow_long_stays,  \* config
    walker_speed,      \* config, in units of 1 / WalkerSpeedDen m/s
    detection_records, \* group_records_by_payload: the reader's record list
    max_passes,        \* config
    pc,                \* position of the driver
    pass_num,          \* estimate_trajectories: pass_num
    judged_before,     \* estimate_trajectories: judged_before of this pass
    all_trajectories,  \* estimate_trajectories: all_trajectories
    cluster_counter,   \* cluster_counter_state, threaded through the passes
    trajectories,      \* cluster_records: estimated_trajectories of this pass
    gidx,              \* cluster_records: position of the for loop over groups
    state,             \* _cluster_one_group: the ClusterState in progress
    idx,               \* _cluster_one_group: main-loop index
    scan_idx,          \* _forward_search: scan index
    clusters,          \* every (cluster_records, route_sequence) returned so far
    passes_run,        \* number of cluster_records calls of the current run
    run                \* number of the driver invocation on this record set

vars == <<group_keys, records, allow_long_stays, walker_speed,
          detection_records, max_passes,
          pc, pass_num,
          judged_before, all_trajectories, cluster_counter, trajectories,
          gidx, state, idx, scan_idx, clusters, passes_run, run>>

inputVars == <<group_keys, allow_long_stays, walker_speed, detection_records,
               max_passes>>
driverVars == <<pass_num, judged_before, all_trajectories, passes_run, run>>

\* ------------------------------------------------------------------- inputs
\* ClusteringConfig, as far as the judge and the scan evaluation read it.
Config == [walker_speed |-> walker_speed, allow_long_stays |-> allow_long_stays]

SeqNums == {0}

FreshRecords ==
    [timestamp : Times, detector_id : DetectorIds, sequence_number : SeqNums,
     is_judged : {FALSE}, cluster_id : {""}]

\* A record as the reader delivers it: not judged, no cluster.
Rec(t, d) ==
    [timestamp |-> t, detector_id |-> d, sequence_number |-> 0,
     is_judged |-> FALSE, cluster_id |-> ""]

IsTimeSorted(recs) ==
    \A i \in 1..(Len(recs) - 1) : recs[i].timestamp <= recs[i + 1].timestamp

\* Time-sorted lists of at most n records of R (a group as produced by
\* group_records_by_payload from the reader's records).
SortedLists(R, n) ==
    {recs \in UNION {[1..k -> R] : k \in 0..n} : IsTimeSorted(recs)}

RecordLists == SortedLists(FreshRecords, MaxRecs)

Range(s) == {s[i] : i \in 1..Len(s)}

\* Values of max_passes: the smallest allowed one and the largest modelled.
PassLimits == {1, MaxPasses}

\* The example groups of the engine's scenarios (detectors A and B only).
Scenarios ==
    {<<Rec(0, "A"), Rec(90, "B")>>,
     <<Rec(0, "A"), Rec(50, "B")>>,
     <<Rec(0, "A"), Rec(50, "B"), Rec(200, "B")>>,
     <<Rec(0, "A"), Rec(30, "A")>>,
     <<Rec(0, "A"), Rec(0, "A"), Rec(90, "B"), Rec(95, "B")>>}

\* Speeds that calculate_min_travel_time maps to a travel time of 0.0.
BadSpeeds == {0, 0 - WalkerSpeedNum}

\* A detector id that the registry does not hold.
UnknownDetector == "X"

SideTimes == {0, 80}

SideLists(ids) ==
    SortedLists({Rec(t, d) : t \in SideTimes, d \in ids}, MaxSideRecs)

\* One call of estimate_trajectories: grouped_records (keys in dict order)
\* and the configuration.
Input(keys, rs, allow, maxp, speed) ==
    [group_keys |-> keys, records |-> rs, allow_long_stays |-> allow,
     max_passes |-> maxp, walker_speed |-> speed]

OneGroup(recs, allow, maxp, speed) ==
    Input(<<GroupKey>>, [g \in {GroupKey} |-> recs], allow, maxp, speed)

\* No group, or one group of records at the registry's detectors.
GeneralInputs ==
    {Input(<<>>, <<>>, a, m, WalkerSpeedNum) : a \in BOOLEAN, m \in PassLimits}
    \cup {OneGroup(recs, a, m, WalkerSpeedNum) :
            recs \in RecordLists, a \in BOOLEAN, m \in PassLimits}

ScenarioInputs ==
    {OneGroup(recs, FALSE, m, WalkerSpeedNum) :
        recs \in Scenarios, m \in PassLimits}

\* A walker_speed that is not positive.
BadSpeedInputs ==
    {OneGroup(recs, FALSE, m, v) :
        recs \in SideLists({"A", "B"}), m \in PassLimits, v \in BadSpeeds}

\* A group with a record at a detector the registry does not hold.
UnknownDetectorInputs ==
    {OneGroup(recs, FALSE, m, WalkerSpeedNum) :
        recs \in {l \in SideLists({"A", "B", UnknownDetector}) :
                    \E i \in 1..Len(l) : l[i].detector_id = UnknownDetector},
        m \in PassLimits}

\* Lists of a second group: records at one time, at a known and at an unknown
\* detector.
OtherLists ==
    SortedLists({Rec(80, "A"), Rec(80, UnknownDetector)}, MaxSideRecs - 1)

\* Three groups: the same records under the first and the last key, and
\* another group between them in the dict order.
ThreeGroupInputs ==
    {Input(<<GroupKey, OtherKey, TwinKey>>,
           [g \in {GroupKey, OtherKey, TwinKey} |->
               IF g = OtherKey THEN other ELSE recs],
           FALSE, m, WalkerSpeedNum) :
        recs \in SortedLists({Rec(t, d) : t \in SideTimes, d \in {"A", "B"}},
                             MaxSideRecs - 1),
        other \in OtherLists, m \in PassLimits}

\* Records around the two thresholds: a stay gap of MAX_STAY_DURATION and
\* one second more, and a move from A to B (140 m, 80 s at the factor) in 79
\* and in 80 seconds.
BoundaryRecords ==
    {Rec(0, "A"), Rec(79, "B"), Rec(80, "B"),
     Rec(MAX_STAY_DURATION, "A"), Rec(MAX_STAY_DURATION + 1, "A")}

BoundaryInputs ==
    {OneGroup(recs, a, m, WalkerSpeedNum) :
        recs \in SortedLists(BoundaryRecords, MaxSideRecs),
        a \in BOOLEAN, m \in PassLimits}

\* Sequence numbers at and just above SEQ_ANOMALY_THRESHOLD from 0.
SeqValues == {SEQ_ANOMALY_THRESHOLD, SEQ_ANOMALY_THRESHOLD + 1}

SeqRecords ==
    {[Rec(t, d) EXCEPT !.sequence_number = q] :
        t \in SideTimes, d \in {"A", "B"}, q \in SeqValues}

\* A record at A with sequence number 0, followed by records whose sequence
\* numbers are 64 or 65 away from it.
SeqInputs ==
    {OneGroup(<<Rec(0, "A")>> \o recs, FALSE, m, WalkerSpeedNum) :
        recs \in SortedLists(SeqRecords, MaxSideRecs - 1), m \in PassLimits}

Inputs ==
    GeneralInputs \cup ScenarioInputs \cup BadSpeedInputs
    \cup UnknownDetectorInputs \cup ThreeGroupInputs \cup BoundaryInputs
    \cup SeqInputs

\* sum(1 for records in grouped_records.values() for rec in records if rec.is_judged)
RECURSIVE JudgedOver(_, _)
JudgedOver(keys, rs) ==
    IF keys = <<>> THEN 0
    ELSE JudgedIn(rs[keys[1]]) + JudgedOver(Tail(keys), rs)

JudgedCount(rs) == JudgedOver(group_keys, rs)

\* sum(len(records) for records in grouped_records.values())
RECURSIVE TotalOver(_, _)
TotalOver(keys, rs) ==
    IF keys = <<>> THEN 0
    ELSE Len(rs[keys[1]]) + TotalOver(Tail(keys), rs)

TotalRecords == TotalOver(group_keys, records)

Init ==
    /\ \E in \in Inputs :
          /\ group_keys = in.group_keys
          /\ records = in.records
          /\ allow_long_stays = in.allow_long_stays
          /\ walker_speed = in.walker_speed
          /\ max_passes = in.max_passes
    /\ detection_records = <<>>
    /\ pc = "pass_start"
    /\ pass_num = 1
    /\ judged_before = 0
    /\ all_trajectories = <<>>
    /\ cluster_counter = [g \in Range(group_keys) |-> 0]
    /\ trajectories = <<>>
    /\ gidx = 0
    /\ state = NoState
    /\ idx = 0
    /\ scan_idx = 0
    /\ clusters = <<>>
    /\ passes_run = 0
    /\ run = 1

\* ------------------------------------------------------ estimate_trajectories
\* Top of the while loop: judged_before is counted and cluster_records is
\* entered (its config and its empty trajectory list are created).
PassStart ==
    /\ pc = "pass_start"
    /\ judged_before' = JudgedCount(records)
    /\ passes_run' = passes_run + 1
    /\ trajectories' = <<>>
    /\ gidx' = 1
    /\ pc' = "group_loop"
    /\ UNCHANGED <<inputVars, records, pass_num, all_trajectories,
                   cluster_counter, state, idx, scan_idx, clusters, run>>

\* Variant of DriverStops that stops after every pass.
DriverStopsAlways(newly_judged, pn, maxp) == TRUE

\* Variant of DriverStops without the safety limit.
DriverStopsOnlyOnNoProgress(newly_judged, pn, maxp) == newly_judged = 0

\* Variant of DriverStops that stops when the pass produced no trajectory.
DriverStopsOnNoTrajectory(newly_judged, pn, maxp) ==
    trajectories = <<>> \/ pn + 1 > maxp

\* The driver stops after a pass iff it judged nothing new or it was the
\* last allowed pass (break, or the while condition fails after pass_num += 1).
DriverStops(newly_judged, pn, maxp) == newly_judged = 0 \/ pn + 1 > maxp

\* Variant of Extend that keeps the trajectories of the last pass only.
KeepLastPass(all, new) == new

\* all_trajectories.extend(trajectories)
Extend(all, new) == all \o new

\* cluster_records returns; the rest of the while body and the loop test.
PassEnd ==
    /\ pc = "pass_end"
    /\ all_trajectories' = Extend(all_trajectories, trajectories)
    /\ LET newly_judged == JudgedCount(records) - judged_before
       IN  /\ pass_num' = IF newly_judged = 0 THEN pass_num ELSE pass_num + 1
           /\ pc' = IF DriverStops(newly_judged, pass_num, max_passes)
                    THEN "final" ELSE "pass_start"
    /\ UNCHANGED <<inputVars, records, judged_before, cluster_counter,
                   trajectories, gidx, state, idx, scan_idx, clusters,
                   passes_run, run>>

\* Final statistics and return.  The judged percentage divides by the total
\* number of records, which raises ZeroDivisionError when there is none.
Finish ==
    /\ pc = "final"
    /\ pc' = IF TotalRecords = 0 THEN "error" ELSE "done"
    /\ UNCHANGED <<inputVars, records, driverVars, cluster_counter,
                   trajectories, gidx, state, idx, scan_idx, clusters>>

\* The value estimate_trajectories returns once pc = "done".
Result == <<all_trajectories, records>>

\* The caller runs the driver a second time on the record set it got back,
\* once every record is judged.
Rerun ==
    /\ pc = "done"
    /\ run = 1
    /\ JudgedCount(records) = TotalRecords
    /\ run' = 2
    /\ pc' = "pass_start"
    /\ pass_num' = 1
    /\ judged_before' = 0
    /\ all_trajectories' = <<>>
    /\ cluster_counter' = [g \in Range(group_keys) |-> 0]
    /\ trajectories' = <<>>
    /\ passes_run' = 0
    /\ UNCHANGED <<inputVars, records, gidx, state, idx, scan_idx, clusters>>

\* ------------------------------------------------------------ cluster_records
CurKey == group_keys[gidx]
CurRecs == records[CurKey]

stepVars == <<inputVars, driverVars>>

\* The for loop over the groups is exhausted: cluster_records returns.
PassReturn ==
    /\ pc = "group_loop"
    /\ gidx > Len(group_keys)
    /\ pc' = "pass_end"
    /\ UNCHANGED <<stepVars, records, cluster_counter, trajectories, gidx,
                   state, idx, scan_idx, clusters>>

\* A group that yields no cluster: an empty list is skipped before the counter
\* is touched; a list without unjudged record advances the counter and makes
\* _cluster_one_group return None.
SkipGroup ==
    /\ pc = "group_loop"
    /\ gidx <= Len(group_keys)
    /\ FirstUnjudgedFrom(CurRecs, 1) > Len(CurRecs)
    /\ cluster_counter' =
          IF CurRecs = <<>> THEN cluster_counter
          ELSE [cluster_counter EXCEPT ![CurKey] = @ + 1]
    /\ gidx' = gidx + 1
    /\ UNCHANGED <<stepVars, records, trajectories, pc, state, idx, scan_idx,
                   clusters>>

\* The counter advances, the cluster id is formed, and _cluster_one_group
\* seeds a ClusterState from the first unjudged record.
SeedCluster ==
    /\ pc = "group_loop"
    /\ gidx <= Len(group_keys)
    /\ LET start_idx == FirstUnjudgedFrom(CurRecs, 1)
           n   == cluster_counter[CurKey] + 1
           cid == ClusterIdOf(CurKey, n)
           st0 == [cluster_id |-> cid, cluster_records |-> <<>>,
                   route_sequence |-> <<>>, prev_record |-> start_idx]
       IN  /\ start_idx <= Len(CurRecs)
           /\ cluster_counter' = [cluster_counter EXCEPT ![CurKey] = n]
           /\ state' = AddRecord(st0, CurRecs[start_idx], start_idx, TRUE)
           /\ records' = [records EXCEPT
                            ![CurKey] = MarkJudged(@, start_idx, cid)]
           /\ idx' = start_idx + 1
    /\ pc' = "main_loop"
    /\ UNCHANGED <<stepVars, trajectories, gidx, scan_idx, clusters>>

\* --------------------------------------------------- _cluster_one_group loop
Accept(i, add_to_route) ==
    /\ state' = AddRecord(state, CurRecs[i], i, add_to_route)
    /\ records' = [records EXCEPT
                     ![CurKey] = MarkJudged(@, i, state.cluster_id)]

\* A judged candidate is stepped over.
MainSkipJudged ==
    /\ pc = "main_loop"
    /\ idx <= Len(CurRecs)
    /\ CandidateAction(state, CurRecs, CurRecs[idx], Config)
          = "SKIP_JUDGED"
    /\ idx' = idx + 1
    /\ UNCHANGED <<stepVars, records, cluster_counter, trajectories, gidx, pc,
                   state, scan_idx, clusters>>

MainStay ==
    /\ pc = "main_loop"
    /\ idx <= Len(CurRecs)
    /\ CandidateAction(state, CurRecs, CurRecs[idx], Config)
          = "ADD_AS_STAY"
    /\ Accept(idx, FALSE)
    /\ idx' = idx + 1
    /\ UNCHANGED <<stepVars, cluster_counter, trajectories, gidx, pc,
                   scan_idx, clusters>>

MainMove ==
    /\ pc = "main_loop"
    /\ idx <= Len(CurRecs)
    /\ CandidateAction(state, CurRecs, CurRecs[idx], Config)
          = "ADD_AS_MOVE"
    /\ Accept(idx, TRUE)
    /\ idx' = idx + 1
    /\ UNCHANGED <<stepVars, cluster_counter, trajectories, gidx, pc,
                   scan_idx, clusters>>

\* The judge asks for a forward search: _forward_search starts at idx.
MainForwardSearch ==
    /\ pc = "main_loop"
    /\ idx <= Len(CurRecs)
    /\ CandidateAction(state, CurRecs, CurRecs[idx], Config)
          = "FORWARD_SEARCH"
    /\ scan_idx' = idx
    /\ pc' = "forward_search"
    /\ UNCHANGED <<stepVars, records, cluster_counter, trajectories, gidx,
                   state, idx, clusters>>

\* The judge looks up a detector the registry lacks: KeyError leaves
\* _cluster_one_group, cluster_records and estimate_trajectories.
MainKeyError ==
    /\ pc = "main_loop"
    /\ idx <= Len(CurRecs)
    /\ CandidateAction(state, CurRecs, CurRecs[idx], Config) = "KEY_ERROR"
    /\ pc' = "key_error"
    /\ UNCHANGED <<stepVars, records, cluster_counter, trajectories, gidx,
                   state, idx, scan_idx, clusters>>

\* The main loop ran off the end of the list: the cluster is returned.
MainEnd ==
    /\ pc = "main_loop"
    /\ idx > Len(CurRecs)
    /\ pc' = "emit"
    /\ UNCHANGED <<stepVars, records, cluster_counter, trajectories, gidx,
                   state, idx, scan_idx, clusters>>

\* ------------------------------------------------------------ _forward_search
ScanSkip ==
    /\ pc = "forward_search"
    /\ scan_idx <= Len(CurRecs)
    /\ EvaluateScanRecord(state, CurRecs, CurRecs[scan_idx], Config)
          = "SKIP"
    /\ scan_idx' = scan_idx + 1
    /\ UNCHANGED <<stepVars, records, cluster_counter, trajectories, gidx, pc,
                   state, idx, clusters>>

\* A same-place record is absorbed and the scan goes on.
ScanAbsorb ==
    /\ pc = "forward_search"
    /\ scan_idx <= Len(CurRecs)
    /\ EvaluateScanRecord(state, CurRecs, CurRecs[scan_idx], Config)
          = "ADD_AND_CONTINUE"
    /\ Accept(scan_idx, FALSE)
    /\ scan_idx' = scan_idx + 1
    /\ UNCHANGED <<stepVars, cluster_counter, trajectories, gidx, pc, idx,
                   clusters>>

\* The bridge target is found: the search returns its index, the extractor
\* accepts it as a move and resumes after it.
ScanFound ==
    /\ pc = "forward_search"
    /\ scan_idx <= Len(CurRecs)
    /\ EvaluateScanRecord(state, CurRecs, CurRecs[scan_idx], Config)
          = "FOUND"
    /\ Accept(scan_idx, TRUE)
    /\ idx' = ResumeIndex(idx, scan_idx)
    /\ pc' = "main_loop"
    /\ UNCHANGED <<stepVars, cluster_counter, trajectories, gidx, scan_idx,
                   clusters>>

\* The scan evaluation looks up a detector the registry lacks: KeyError.
ScanKeyError ==
    /\ pc = "forward_search"
    /\ scan_idx <= Len(CurRecs)
    /\ EvaluateScanRecord(state, CurRecs, CurRecs[scan_idx], Config)
          = "KEY_ERROR"
    /\ pc' = "key_error"
    /\ UNCHANGED <<stepVars, records, cluster_counter, trajectories, gidx,
                   state, idx, scan_idx, clusters>>

\* The scan ran off the end of the list: the search returns None and the
\* extractor leaves its loop.
ScanExhausted ==
    /\ pc = "forward_search"
    /\ scan_idx > Len(CurRecs)
    /\ pc' = "emit"
    /\ UNCHANGED <<stepVars, records, cluster_counter, trajectories, gidx,
                   state, idx, scan_idx, clusters>>

\* ------------------------------------------- cluster_records, after a cluster
\* Variant of IsValidCluster that accepts every seeded cluster.
IsNonEmptyCluster(route_sequence) == Len(route_sequence) >= 1

\* Whether a returned cluster becomes a trajectory.
IsValidCluster(route_sequence) == Len(route_sequence) >= 2

\* _cluster_one_group has returned (cluster_records, route_sequence): a
\* trajectory is appended when the route is long enough, then the for loop
\* goes to the next group.
EmitCluster ==
    /\ pc = "emit"
    /\ trajectories' =
          IF IsValidCluster(state.route_sequence)
          THEN Append(trajectories,
                 [trajectory_id |-> TrajectoryIdOf(Len(trajectories) + 1),
                  cluster_ids   |-> <<state.cluster_id>>,
                  route         |-> Join(state.route_sequence),
                  stays         |-> CreateEstimatedStays(
                      [k \in 1..Len(state.cluster_records) |->
                          CurRecs[state.cluster_records[k]]])])
          ELSE trajectories
    /\ clusters' = Append(clusters,
                      [group           |-> CurKey,
                       cluster_id      |-> state.cluster_id,
                       cluster_records |-> state.cluster_records,
                       route_sequence  |-> state.route_sequence])
    /\ state' = NoState
    /\ gidx' = gidx + 1
    /\ pc' = "group_loop"
    /\ UNCHANGED <<stepVars, records, cluster_counter, idx, scan_idx>>

\* --------------------------------------------------------------------- Next
Next ==
    \/ PassStart
    \/ PassReturn
    \/ SkipGroup
    \/ SeedCluster
    \/ MainSkipJudged
    \/ MainStay
    \/ MainMove
    \/ MainForwardSearch
    \/ MainKeyError
    \/ MainEnd
    \/ ScanSkip
    \/ ScanAbsorb
    \/ ScanFound
    \/ ScanKeyError
    \/ ScanExhausted
    \/ EmitCluster
    \/ PassEnd
    \/ Finish
    \/ Rerun

Spec == Init /\ [][Next]_vars

FairSpec == Spec /\ WF_vars(Next)

\* ------------------------------------------------- group_records_by_payload
HashedIds ==
    {"C_01_base_hash", "C_01_sub_hash", "C_02_sub_hash", "C_01_base_hash_v2",
     "B_common_hash_X", "unique_and_hashed_payload_Walker_1"}

RawTimes == {0, 5}

\* Records as the reader delivers them.
RawRecords ==
    [timestamp : RawTimes, walker_id : {"Walker_1"}, hashed_id : HashedIds,
     detector_id : {"A"}, sequence_number : {0}, is_judged : {FALSE},
     cluster_id : {""}]

\* grouped_records = defaultdict(list) and the call's argument, in any order.
GroupInit ==
    /\ detection_records \in UNION {[1..n -> RawRecords] : n \in 0..MaxRaw}
    /\ group_keys = <<>>
    /\ records = <<>>
    /\ idx = 1
    /\ gidx = 0
    /\ pc = "group_append"
    /\ allow_long_stays = FALSE
    /\ walker_speed = WalkerSpeedNum
    /\ max_passes = 1
    /\ pass_num = 1
    /\ judged_before = 0
    /\ all_trajectories = <<>>
    /\ cluster_counter = <<>>
    /\ trajectories = <<>>
    /\ state = NoState
    /\ scan_idx = 0
    /\ clusters = <<>>
    /\ passes_run = 0
    /\ run = 1

groupFixed == <<allow_long_stays, walker_speed, detection_records, max_passes,
                pass_num, judged_before, all_trajectories, cluster_counter,
                trajectories, state, scan_idx, clusters, passes_run, run>>

\* One iteration of the first loop: the record is appended to the list of its
\* integrated hash (a new key enters the dict behind the others).
GroupAppend ==
    /\ pc = "group_append"
    /\ idx <= Len(detection_records)
    /\ LET record == detection_records[idx]
           integrated_hash == IntegrateSimilarPayloads(record.hashed_id)
       IN  /\ group_keys' = IF InSeq(integrated_hash, group_keys)
                            THEN group_keys
                            ELSE Append(group_keys, integrated_hash)
           /\ records' =
                 [k \in DOMAIN records \cup {integrated_hash} |->
                    IF k = integrated_hash
                    THEN Append(IF k \in DOMAIN records THEN records[k]
                                ELSE <<>>, record)
                    ELSE records[k]]
    /\ idx' = idx + 1
    /\ UNCHANGED <<groupFixed, gidx, pc>>

\* The first loop is exhausted.
GroupAppendEnd ==
    /\ pc = "group_append"
    /\ idx > Len(detection_records)
    /\ gidx' = 1
    /\ pc' = "group_sort"
    /\ UNCHANGED <<groupFixed, group_keys, records, idx>>

\* One iteration of the second loop: one group's list is sorted.
GroupSort ==
    /\ pc = "group_sort"
    /\ gidx <= Len(group_keys)
    /\ records' = [records EXCEPT ![group_keys[gidx]] = SortByTimestamp(@)]
    /\ gidx' = gidx + 1
    /\ UNCHANGED <<groupFixed, group_keys, idx, pc>>

\* return dict(grouped_records)
GroupReturn ==
    /\ pc = "group_sort"
    /\ gidx > Len(group_keys)
    /\ pc' = "group_done"
    /\ UNCHANGED <<groupFixed, group_keys, records, idx, gidx>>

GroupNext == GroupAppend \/ GroupAppendEnd \/ GroupSort \/ GroupReturn

GroupSpec == GroupInit /\ [][GroupNext]_vars

TypeOK ==
    /\ pc \in {"pass_start", "group_loop", "main_loop", "forward_search",
               "emit", "pass_end", "final", "done", "error", "key_error",
               "group_append", "group_sort", "group_done"}
    /\ pass_num \in 1..(MaxPasses + 1)

\* =================================================================== claims
\* Every cluster built so far: the returned ones and the one in progress.
AllClusters ==
    IF state = NoState THEN clusters
    ELSE Append(clusters,
                [group           |-> CurKey,
                 cluster_id      |-> state.cluster_id,
                 cluster_records |-> state.cluster_records,
                 route_sequence  |-> state.route_sequence])

\* Clusters whose record list contains record i of group g.
Holders(g, i) ==
    {k \in 1..Len(AllClusters) :
        /\ AllClusters[k].group = g
        /\ InSeq(i, AllClusters[k].cluster_records)}

NoDuplicates(s) == \A i, j \in 1..Len(s) : s[i] = s[j] => i = j

\* C1 -- Partition invariant: in every state of a run and after it, each
\* record is either unjudged with an empty cluster_id and in no cluster's
\* record list, or judged with a non-empty cluster_id and contained (once) in
\* the record list of exactly one cluster, the one carrying that id.
C1_PartitionInvariant ==
    /\ \A g \in Range(group_keys) : \A i \in 1..Len(records[g]) :
          LET r == records[g][i]
          IN  IF r.is_judged
              THEN /\ r.cluster_id # ""
                   /\ Cardinality(Holders(g, i)) = 1
                   /\ \A k \in Holders(g, i) :
                         AllClusters[k].cluster_id = r.cluster_id
              ELSE /\ r.cluster_id = ""
                   /\ Holders(g, i) = {}
    /\ \A k \in 1..Len(AllClusters) :
          NoDuplicates(AllClusters[k].cluster_records)

\* C1 witness: the run is over, two clusters exist, and a record is still
\* unjudged.
C1_Witness ==
    /\ pc = "done"
    /\ Len(clusters) >= 2
    /\ \E g \in Range(group_keys) : \E i, j, k \in 1..Len(records[g]) :
          /\ records[g][i].is_judged /\ records[g][j].is_judged
          /\ records[g][i].cluster_id # records[g][j].cluster_id
          /\ ~records[g][k].is_judged

\* C2 -- Write-once annotation: a record that is judged keeps its is_judged
\* and its cluster_id in every later step (scan step, forward search, pass).
C2_WriteOnce ==
    [][\A g \in Range(group_keys) : \A i \in 1..Len(records[g]) :
          records[g][i].is_judged => records'[g][i] = records[g][i]]_vars

\* C2 witness: a forward search of a later pass stands on a record that an
\* earlier cluster has judged.
C2_Witness ==
    /\ pc = "forward_search"
    /\ scan_idx <= Len(CurRecs)
    /\ CurRecs[scan_idx].is_judged
    /\ CurRecs[scan_idx].cluster_id # state.cluster_id

\* Trajectories emitted so far in the current run.
Emitted == all_trajectories \o trajectories

Last(s) == s[Len(s)]

\* C3 as stated -- Route well-formedness (no repeats at all): no detector
\* occurs more than once in the route of an emitted trajectory.
C3_RouteNoRepeats ==
    \A n \in 1..Len(Emitted) : \A k \in 1..Len(AllClusters) :
        AllClusters[k].cluster_id = Emitted[n].cluster_ids[1]
            => NoDuplicates(AllClusters[k].route_sequence)

\* C3 amended -- a forward-search bridge extends the route by exactly one
\* detector that does not yet occur anywhere in the route (a main-loop MOVE
\* is not so restricted: it may return to an earlier, non-tail detector).
C3_BridgeNoRevisit ==
    [][(pc = "forward_search"
          /\ state'.route_sequence # state.route_sequence)
        => /\ Len(state'.route_sequence) = Len(state.route_sequence) + 1
           /\ SubSeq(state'.route_sequence, 1, Len(state.route_sequence))
                = state.route_sequence
           /\ ~InSeq(Last(state'.route_sequence), state.route_sequence)]_vars

\* C3 witness: a bridge has just extended a route of two detectors to a
\* third one after the scan passed an unjudged record at the first detector.
C3_Witness ==
    /\ pc = "main_loop"
    /\ state.prev_record = scan_idx
    /\ idx = scan_idx + 1
    /\ Len(state.route_sequence) = 3
    /\ \E j \in 1..(scan_idx - 1) :
          /\ ~CurRecs[j].is_judged
          /\ CurRecs[j].detector_id = state.route_sequence[1]

NoConsecutiveRepeat(route) ==
    \A i \in 1..(Len(route) - 1) : route[i] # route[i + 1]

\* C4 -- In every ClusterState and in every returned cluster (hence in every
\* emitted route) no two consecutive route elements are equal, and accepting
\* a record at the route-tail detector leaves route_sequence unchanged.
C4_NoConsecutiveRepeat ==
    /\ [](\A k \in 1..Len(AllClusters) :
             NoConsecutiveRepeat(AllClusters[k].route_sequence))
    /\ [][(pc \in {"main_loop", "forward_search"}
            /\ state'.cluster_records # state.cluster_records
            /\ CurRecs[Last(state'.cluster_records)].detector_id
                 = RouteTail(state.route_sequence))
          => state'.route_sequence = state.route_sequence]_vars

\* C4 witness: a forward search has just absorbed a same-place record into a
\* cluster that already holds a STAY record; the route is still one detector.
C4_Witness ==
    /\ pc = "forward_search"
    /\ state.prev_record = scan_idx - 1
    /\ Len(state.cluster_records) >= 3
    /\ Len(state.route_sequence) = 1

\* C5 -- Feasibility: whenever a record is accepted as a move (the route of
\* the cluster in progress grows), elapsed >= distance / speed * factor for
\* the configured (positive) speed, measured from the last record accepted
\* before it.
C5_Feasibility ==
    [][(state # NoState /\ state' # NoState
          /\ walker_speed > 0
          /\ Len(state'.route_sequence) = Len(state.route_sequence) + 1)
        => LET from == CurRecs[Last(state.cluster_records)]
               to   == CurRecs[Last(state'.cluster_records)]
               e    == to.timestamp - from.timestamp
               d1   == Detectors[from.detector_id]
               d2   == Detectors[to.detector_id]
               dsq  == (d1[1] - d2[1]) * (d1[1] - d2[1])
                         + (d1[2] - d2[2]) * (d1[2] - d2[2])
               a    == e * walker_speed * ImpossibleFactorDen
               b    == WalkerSpeedDen * ImpossibleFactorNum
           IN  /\ from.detector_id # to.detector_id
               /\ e >= 0
               /\ a * a >= dsq * b * b]_vars

\* C5 witness: a bridge target has just been accepted right after a same-place
\* record that the same forward search absorbed behind a skipped record.
C5_Witness ==
    /\ pc = "main_loop"
    /\ state.prev_record = scan_idx
    /\ idx = scan_idx + 1
    /\ Len(state.cluster_records) >= 3
    /\ LET a == state.cluster_records[Len(state.cluster_records) - 1]
       IN  /\ CurRecs[a].detector_id # CurRecs[scan_idx].detector_id
           /\ \E j \in 1..(a - 1) :
                 /\ ~CurRecs[j].is_judged
                 /\ j > state.cluster_records[Len(state.cluster_records) - 2]

\* C6 -- Temporal monotonicity: the records of every cluster, in the order of
\* acceptance, have non-decreasing timestamps.
C6_TemporalMonotonicity ==
    \A k \in 1..Len(AllClusters) :
        LET c == AllClusters[k]
        IN  \A i, j \in 1..Len(c.cluster_records) :
               i < j => records[c.group][c.cluster_records[i]].timestamp
                          <= records[c.group][c.cluster_records[j]].timestamp

\* C6 witness: a returned cluster holds three records or more, taken from
\* non-adjacent positions (a search skipped a record), at increasing times.
C6_Witness ==
    \E k \in 1..Len(clusters) :
        LET c == clusters[k]
            n == Len(c.cluster_records)
        IN  /\ n >= 3
            /\ Len(c.route_sequence) >= 2
            /\ \E i \in 1..(n - 1) :
                  c.cluster_records[i + 1] > c.cluster_records[i] + 1
            /\ records[c.group][c.cluster_records[1]].timestamp
                 < records[c.group][c.cluster_records[n]].timestamp

\* Lexicographic order on tuples of naturals of equal length.
RECURSIVE LexLess(_, _)
LexLess(a, b) ==
    IF a = <<>> THEN FALSE
    ELSE \/ a[1] < b[1]
         \/ a[1] = b[1] /\ LexLess(Tail(a), Tail(b))

\* Work that is left, as a tuple that is compared lexicographically: runs,
\* passes of the run, phase of the pass, groups of the pass, phase of the
\* group, records of the group still ahead of the main loop or of the scan.
Rank ==
    <<2 - run,
      CASE pc \in {"done", "error", "key_error"} -> 0
        [] pc = "final" -> 1
        [] OTHER -> 2 + max_passes - pass_num,
      CASE pc = "pass_start" -> 3
        [] pc = "pass_end" -> 1
        [] OTHER -> 2,
      IF pc \in {"group_loop", "main_loop", "forward_search", "emit"}
      THEN Len(group_keys) + 1 - gidx ELSE 0,
      CASE pc = "group_loop" -> 3
        [] pc \in {"main_loop", "forward_search"} -> 2
        [] OTHER -> 1,
      CASE pc = "main_loop" -> 2 * (Len(CurRecs) + 1 - idx) + 1
        [] pc = "forward_search" -> 2 * (Len(CurRecs) + 1 - scan_idx)
        [] OTHER -> 0>>

\* Some action of Next is enabled: the loops either are at their end or stand
\* on a record for which the judge / the scan evaluation gives an action.
StepPossible ==
    \/ pc \in {"pass_start", "group_loop", "emit", "pass_end", "final"}
    \/ /\ pc = "main_loop"
       /\ \/ idx > Len(CurRecs)
          \/ CandidateAction(state, CurRecs, CurRecs[idx], Config)
               \in {"SKIP_JUDGED", "ADD_AS_STAY", "ADD_AS_MOVE",
                    "FORWARD_SEARCH", "KEY_ERROR"}
    \/ /\ pc = "forward_search"
       /\ \/ scan_idx > Len(CurRecs)
          \/ EvaluateScanRecord(state, CurRecs, CurRecs[scan_idx],
                                Config)
               \in {"SKIP", "ADD_AND_CONTINUE", "FOUND", "KEY_ERROR"}

\* C7 -- The driver always terminates and executes at most max_passes
\* passes: every step strictly decreases Rank, whose components never drop
\* below zero, a step is possible until the driver has returned or raised,
\* and the number of passes of a run never exceeds max_passes.
C7_TerminatesWithinMaxPasses ==
    /\ [][LexLess(Rank', Rank)]_vars
    /\ [](\A k \in 1..Len(Rank) : Rank[k] >= 0)
    /\ [](pc \notin {"done", "error", "key_error"} => StepPossible)
    /\ [](passes_run <= max_passes)

\* C7 witness: a run has ended after exactly max_passes > 1 passes with
\* records still unjudged.
C7_Witness ==
    /\ pc = "done"
    /\ max_passes > 1
    /\ passes_run = max_passes
    /\ JudgedCount(records) < TotalRecords

\* C8 -- Driver transition rule: at the end of a pass the driver leaves the
\* loop exactly when the pass judged no new record or it was pass number
\* max_passes; otherwise the next pass starts with pass_num increased by one.
C8_DriverTransition ==
    [][pc = "pass_end"
        => LET stop == \/ JudgedCount(records) = judged_before
                       \/ passes_run = max_passes
           IN  /\ stop => pc' = "final"
               /\ ~stop => pc' = "pass_start" /\ pass_num' = pass_num + 1
               /\ pass_num = passes_run]_vars

\* C8 witness: after a pass that judged a record but produced no trajectory
\* the driver has started the next pass.
C8_Witness ==
    /\ pc = "group_loop"
    /\ passes_run = 2
    /\ gidx = 1
    /\ all_trajectories = <<>>
    /\ judged_before > 0

\* C9 -- Idempotence: a run of the driver on a record set whose records are
\* all judged builds no cluster, returns no trajectory, takes exactly one
\* pass and changes no record.
C9_Idempotence ==
    /\ [](run = 2 => /\ all_trajectories = <<>>
                     /\ trajectories = <<>>
                     /\ state = NoState
                     /\ passes_run <= 1
                     /\ pc # "error"
                     /\ pc = "done" => passes_run = 1)
    /\ [][run = 2 => records' = records /\ clusters' = clusters]_vars

\* C9 witness: the second run has returned, and the first one had emitted a
\* trajectory.
C9_Witness ==
    /\ run = 2
    /\ pc = "done"
    /\ \E k \in 1..Len(clusters) : Len(clusters[k].route_sequence) >= 2

\* C10 -- Minimality: a returned cluster has a trajectory in the output iff
\* its route has two entries or more, and every trajectory of a pass or of
\* the driver belongs to such a cluster.
C10_Minimality ==
    run = 1 =>
      /\ \A k \in 1..Len(clusters) :
            Len(clusters[k].route_sequence) >= 2
              <=> \E n \in 1..Len(Emitted) :
                     Emitted[n].cluster_ids = <<clusters[k].cluster_id>>
      /\ \A n \in 1..Len(Emitted) : \E k \in 1..Len(clusters) :
            /\ Emitted[n].cluster_ids = <<clusters[k].cluster_id>>
            /\ Emitted[n].route = Join(clusters[k].route_sequence)
            /\ Len(clusters[k].route_sequence) >= 2

\* C10 witness: the run is over with one trajectory in the output and a
\* single-detector cluster that was dropped.
C10_Witness ==
    /\ pc = "done"
    /\ run = 1
    /\ Len(all_trajectories) = 1
    /\ \E k \in 1..Len(clusters) : Len(clusters[k].route_sequence) = 1

\* ------------------------------------------------------------ scenarios
\* The run was started on one group holding exactly the records of L, with
\* the default speed and without long stays.
InputIs(L) ==
    /\ group_keys = <<GroupKey>>
    /\ walker_speed = WalkerSpeedNum
    /\ ~allow_long_stays
    /\ Len(records[GroupKey]) = Len(L)
    /\ \A i \in 1..Len(L) :
          /\ records[GroupKey][i].timestamp = L[i].timestamp
          /\ records[GroupKey][i].detector_id = L[i].detector_id

\* total_records - total_judged of the final statistics.
Unjudged == TotalRecords - JudgedCount(records)

Scenario3 == <<Rec(0, "A"), Rec(50, "B"), Rec(200, "B")>>

\* C11 as stated -- scenario 3, (0,A), (50,B), (200,B): the driver emits
\* exactly one trajectory "AB" that uses the t=200 record, and when it has
\* finished the t=50 record is still unjudged: residual unjudged count 1.
C11_Scenario3Residual ==
    (InputIs(Scenario3) /\ run = 1 /\ pc = "done") =>
        /\ Len(all_trajectories) = 1
        /\ all_trajectories[1].route = "AB"
        /\ records[GroupKey][3].cluster_id = all_trajectories[1].cluster_ids[1]
        /\ ~records[GroupKey][2].is_judged
        /\ Unjudged = 1

\* C11 amended -- scenario 3: the driver emits exactly one trajectory "AB"
\* built from the t=0 and the t=200 record; the t=50 record is unjudged when
\* pass 1 ends, and stays so only when max_passes = 1: a second pass makes it
\* a single-detector cluster of its own (judged, second cluster id of the
\* group, no trajectory), so that the residual unjudged count is 0.
C11_Scenario3 ==
    (InputIs(Scenario3) /\ run = 1) =>
        /\ (pc = "pass_end" /\ passes_run = 1) =>
              /\ ~records[GroupKey][2].is_judged
              /\ Len(trajectories) = 1
        /\ pc = "done" =>
              /\ Len(all_trajectories) = 1
              /\ all_trajectories[1].route = "AB"
              /\ all_trajectories[1].cluster_ids = <<ClusterIdOf(GroupKey, 1)>>
              /\ \A i \in {1, 3} :
                    /\ records[GroupKey][i].is_judged
                    /\ records[GroupKey][i].cluster_id = ClusterIdOf(GroupKey, 1)
              /\ \E k \in 1..Len(clusters) :
                    /\ clusters[k].cluster_id = ClusterIdOf(GroupKey, 1)
                    /\ clusters[k].cluster_records = <<1, 3>>
              /\ IF max_passes = 1
                 THEN /\ ~records[GroupKey][2].is_judged
                      /\ Unjudged = 1
                 ELSE /\ records[GroupKey][2].is_judged
                      /\ records[GroupKey][2].cluster_id
                           = ClusterIdOf(GroupKey, 2)
                      /\ Unjudged = 0

\* C11 witness: the driver has finished scenario 3 with the t=50 record
\* judged by a second pass.
C11_Witness ==
    /\ InputIs(Scenario3)
    /\ run = 1
    /\ pc = "done"
    /\ passes_run >= 2
    /\ records[GroupKey][2].is_judged

Scenario5 == <<Rec(0, "A"), Rec(0, "A"), Rec(90, "B"), Rec(95, "B")>>

\* C12 as stated -- scenario 5, (0,A), (0,A), (90,B), (95,B): pass 1 and
\* pass 2 each form a cluster "AB" from one A and one B record, and the
\* driver returns two trajectories, both with route "AB".
C12_Scenario5TwoTrajectories ==
    (InputIs(Scenario5) /\ run = 1 /\ pc = "done" /\ max_passes >= 2) =>
        /\ Len(all_trajectories) = 2
        /\ all_trajectories[1].route = "AB"
        /\ all_trajectories[2].route = "AB"
        /\ all_trajectories[1].cluster_ids # all_trajectories[2].cluster_ids

\* C12 amended -- scenario 5: pass 1 forms a single cluster "AB" that takes
\* all four records (the second A and the second B are same-place stays of
\* the cluster in progress); the driver returns one trajectory "AB" whose
\* stays count two detections each, and a second pass finds no unjudged
\* record and builds no cluster.
C12_Scenario5 ==
    (InputIs(Scenario5) /\ run = 1 /\ pc = "done") =>
        /\ Len(all_trajectories) = 1
        /\ all_trajectories[1].route = "AB"
        /\ all_trajectories[1].cluster_ids = <<ClusterIdOf(GroupKey, 1)>>
        /\ Len(all_trajectories[1].stays) = 2
        /\ \A k \in 1..2 : all_trajectories[1].stays[k].num_detections = 2
        /\ all_trajectories[1].stays[2].first_detection = 90
        /\ all_trajectories[1].stays[2].last_detection = 95
        /\ Len(clusters) = 1
        /\ clusters[1].cluster_records = <<1, 2, 3, 4>>
        /\ \A i \in 1..4 :
              /\ records[GroupKey][i].is_judged
              /\ records[GroupKey][i].cluster_id = ClusterIdOf(GroupKey, 1)
        /\ passes_run = IF max_passes = 1 THEN 1 ELSE 2

\* C12 witness: the driver has finished scenario 5 after a second pass.
C12_Witness ==
    /\ InputIs(Scenario5)
    /\ run = 1
    /\ pc = "done"
    /\ passes_run = 2
    /\ Len(all_trajectories) = 1

Scenario2 == <<Rec(0, "A"), Rec(50, "B")>>

\* C13 -- scenario 2, (0,A), (50,B): the move is infeasible and the forward
\* search finds no bridge, so pass 1 ends a cluster at "A" and pass 2 builds a
\* cluster "B" with another cluster id; neither becomes a trajectory, and the
\* driver returns no trajectory.
C13_Scenario2 ==
    (InputIs(Scenario2) /\ run = 1) =>
        /\ all_trajectories = <<>>
        /\ trajectories = <<>>
        /\ passes_run <= 1 => Len(clusters) <= 1
        /\ (pc = "pass_end" /\ passes_run = 1) =>
              /\ Len(clusters) = 1
              /\ clusters[1].route_sequence = <<"A">>
              /\ clusters[1].cluster_records = <<1>>
              /\ ~records[GroupKey][2].is_judged
        /\ (pc = "done" /\ max_passes >= 2) =>
              /\ Len(clusters) = 2
              /\ clusters[1].route_sequence = <<"A">>
              /\ clusters[2].route_sequence = <<"B">>
              /\ clusters[2].cluster_records = <<2>>
              /\ clusters[1].cluster_id # clusters[2].cluster_id
              /\ \A i \in 1..2 :
                    /\ records[GroupKey][i].is_judged
                    /\ records[GroupKey][i].cluster_id = clusters[i].cluster_id

\* C13 witness: the driver has finished scenario 2 with two clusters built.
C13_Witness ==
    /\ InputIs(Scenario2)
    /\ run = 1
    /\ pc = "done"
    /\ Len(clusters) = 2
    /\ all_trajectories = <<>>

\* ------------------------------------------------------------ error handling
\* C14 -- Configuration errors fail fast: with a walker_speed that is not
\* positive the engine raises before any record is processed, so no record is
\* judged, no trajectory is produced and the run does not complete normally.
C14_BadSpeedFailsFast ==
    walker_speed <= 0 =>
        /\ JudgedCount(records) = 0
        /\ trajectories = <<>>
        /\ all_trajectories = <<>>
        /\ pc # "done"

\* Some record of group g names a detector the registry does not hold.
NamesUnknownDetector(g) ==
    \E i \in 1..Len(records[g]) : records[g][i].detector_id \notin DetectorIds

\* C15 -- Missing detector reference: when a record of a group names a
\* detector absent from the registry, no such record is ever accepted into a
\* cluster (as seed, as same-place stay or otherwise) and the run never
\* completes normally: processing the group ends in an error state.
C15_MissingDetectorIsFatal ==
    \A g \in Range(group_keys) :
        NamesUnknownDetector(g) =>
            /\ \A i \in 1..Len(records[g]) :
                  records[g][i].detector_id \notin DetectorIds
                      => ~records[g][i].is_judged
            /\ pc # "done"

\* ------------------------------------------------------- safety-limit result
\* The returned pass reached the limit and left records unjudged.
LimitExhausted ==
    /\ run = 1
    /\ pc = "done"
    /\ passes_run = max_passes
    /\ Unjudged > 0

\* cluster_ids of the trajectories that the clusters cs give, in cs order.
RECURSIVE ValidClusterIds(_)
ValidClusterIds(cs) ==
    IF cs = <<>> THEN <<>>
    ELSE LET rest == ValidClusterIds(SubSeq(cs, 1, Len(cs) - 1))
             c    == cs[Len(cs)]
         IN  IF Len(c.route_sequence) >= 2
             THEN Append(rest, <<c.cluster_id>>) ELSE rest

\* Positions (group, index) of the records that are not judged.
UnjudgedPositions(rs) ==
    {p \in UNION {{<<g, i>> : i \in 1..Len(rs[g])} : g \in DOMAIN rs} :
        ~rs[p[1]][p[2]].is_judged}

\* C16 as stated -- safety-limit exhaustion: the driver returns normally with
\* the accumulated trajectories and the annotated record set, and the count
\* of unresolved records is an attribute of the result.
C16_UnresolvedCountInResult ==
    LimitExhausted =>
        /\ Result[1] = all_trajectories
        /\ Result[2] = records
        /\ Len(Result) = 3
        /\ Result[3] = Unjudged

\* C16 amended -- safety-limit exhaustion is not an exception: after pass
\* max_passes with records left unjudged the driver returns normally the
\* pair of the trajectories of all passes, in pass order, and the record set
\* with its final annotations; the unresolved count is no component of that
\* pair, it is the number of returned records that are not judged (and is
\* greater than zero).
C16_SafetyLimitResult ==
    /\ [][(pc = "final" /\ Unjudged > 0) => pc' = "done"]_vars
    /\ [][(pc = "pass_end" /\ run = 1)
            => /\ all_trajectories' = all_trajectories \o trajectories
               /\ records' = records]_vars
    /\ []((run = 1 /\ pc \in {"final", "done"})
            => [k \in 1..Len(all_trajectories) |->
                    all_trajectories[k].cluster_ids] = ValidClusterIds(clusters))
    /\ [](LimitExhausted
            => /\ Len(Result) = 2
               /\ Result[1] = all_trajectories
               /\ Result[2] = records
               /\ Cardinality(UnjudgedPositions(Result[2])) = Unjudged
               /\ Unjudged > 0)

\* C16 witness: the driver has returned after max_passes = 2 passes with a
\* trajectory and with a record that no pass judged.
C16_Witness ==
    /\ LimitExhausted
    /\ max_passes >= 2
    /\ Len(all_trajectories) >= 1
    /\ JudgedCount(records) > judged_before

\* ----------------------------------------------------------- payload grouping
\* Number of positions of seq that hold r.
Count(seq, r) == Cardinality({i \in 1..Len(seq) : seq[i] = r})

\* group_records_by_payload has returned a partition of its input by KeyOf:
\* the keys are exactly the keys of the input records, no list is empty,
\* every list is time-sorted and holds only records of its key, and every
\* input record occurs in the list of its key as often as in the input, and
\* nowhere else (the lists together are as long as the input).
IsSortedPartitionBy(KeyOf(_)) ==
    /\ DOMAIN records = {KeyOf(detection_records[i].hashed_id) :
                            i \in 1..Len(detection_records)}
    /\ Range(group_keys) = DOMAIN records
    /\ NoDuplicates(group_keys)
    /\ \A k \in DOMAIN records :
          /\ records[k] # <<>>
          /\ IsTimeSorted(records[k])
          /\ \A j \in 1..Len(records[k]) : KeyOf(records[k][j].hashed_id) = k
    /\ \A r \in Range(detection_records) :
          Count(records[KeyOf(r.hashed_id)], r) = Count(detection_records, r)
    /\ TotalOver(group_keys, records) = Len(detection_records)

ModelNumbers == {"01", "02"}

\* The merge rule as the claim words it: C_xx_base_hash and C_xx_sub_hash go
\* to C_xx_integrated, every other identifier to itself.
ClaimedKey(h) ==
    IF \E xx \in ModelNumbers :
          h \in {"C_" \o xx \o "_base_hash", "C_" \o xx \o "_sub_hash"}
    THEN "C_" \o (CHOOSE xx \in ModelNumbers :
                     h \in {"C_" \o xx \o "_base_hash",
                            "C_" \o xx \o "_sub_hash"}) \o "_integrated"
    ELSE h

\* The keys of the modelled identifiers, written out.
ExpectedKey(h) ==
    CASE h = "C_01_base_hash"    -> "C_01_integrated"
      [] h = "C_01_sub_hash"     -> "C_01_integrated"
      [] h = "C_02_sub_hash"     -> "C_02_integrated"
      [] h = "C_01_base_hash_v2" -> "C_01_integrated"
      [] OTHER                   -> h

\* C17 as stated -- payload grouping is a partition plus sort by the key
\* that sends C_xx_base_hash and C_xx_sub_hash to C_xx_integrated and every
\* other identifier to itself.
C17_GroupingByClaimedKey ==
    pc = "group_done" => IsSortedPartitionBy(ClaimedKey)

\* C17 amended -- payload grouping is a partition plus sort by the key of
\* integrate_similar_payloads: an identifier that starts with "C_" and
\* contains "_base_hash" or "_sub_hash" goes to its part before "_base_" /
\* "_sub_" plus "_integrated" (so C_01_base_hash_v2 goes to C_01_integrated
\* as C_01_base_hash and C_01_sub_hash do), every other identifier to itself;
\* each record is in exactly the group of its key, unmodified, each list is
\* sorted by non-decreasing timestamp and no group is empty.
C17_GroupingPartition ==
    pc = "group_done" => IsSortedPartitionBy(ExpectedKey)

\* C17 witness: grouping has returned two groups or more, one of which merges
\* records of different identifiers that the input held out of time order.
C17_Witness ==
    /\ pc = "group_done"
    /\ Len(group_keys) >= 2
    /\ \E i, j \in 1..Len(detection_records) :
          /\ i < j
          /\ detection_records[i].timestamp > detection_records[j].timestamp
          /\ detection_records[i].hashed_id # detection_records[j].hashed_id
          /\ IntegrateSimilarPayloads(detection_records[i].hashed_id)
               = IntegrateSimilarPayloads(detection_records[j].hashed_id)

\* ------------------------------------------------------------ stay aggregation
\* The records of returned cluster k, in the order of acceptance.
RecordsOf(k) ==
    [i \in 1..Len(clusters[k].cluster_records) |->
        records[clusters[k].group][clusters[k].cluster_records[i]]]

\* The returned cluster that trajectory t was made of.
ClusterOf(t) ==
    CHOOSE k \in 1..Len(clusters) : <<clusters[k].cluster_id>> = t.cluster_ids

RECURSIVE SumOfDetections(_)
SumOfDetections(stays) ==
    IF stays = <<>> THEN 0
    ELSE stays[1].num_detections + SumOfDetections(Tail(stays))

\* C18 -- Stay aggregation: the stays of an emitted trajectory are one per
\* distinct detector of its cluster's records, in the order of the detectors'
\* earliest timestamps; a stay's first and last detection are the minimum and
\* the maximum timestamp of its detector's records, its duration is their
\* difference (>= 0), its num_detections the number of those records, and
\* the num_detections sum to the number of cluster records.
C18_StayAggregation ==
    \A n \in 1..Len(Emitted) :
        LET crecs == RecordsOf(ClusterOf(Emitted[n]))
            stays == Emitted[n].stays
            At(d) == {i \in 1..Len(crecs) : crecs[i].detector_id = d}
        IN  /\ {stays[j].detector_id : j \in 1..Len(stays)}
                 = {crecs[i].detector_id : i \in 1..Len(crecs)}
            /\ \A j, l \in 1..Len(stays) :
                  /\ stays[j].detector_id = stays[l].detector_id => j = l
                  /\ j < l => stays[j].first_detection
                                <= stays[l].first_detection
            /\ \A j \in 1..Len(stays) :
                  LET own == At(stays[j].detector_id)
                  IN  /\ \E i \in own :
                            crecs[i].timestamp = stays[j].first_detection
                      /\ \E i \in own :
                            crecs[i].timestamp = stays[j].last_detection
                      /\ \A i \in own :
                            /\ stays[j].first_detection <= crecs[i].timestamp
                            /\ crecs[i].timestamp <= stays[j].last_detection
                      /\ stays[j].estimated_duration_seconds
                           = stays[j].last_detection - stays[j].first_detection
                      /\ stays[j].estimated_duration_seconds >= 0
                      /\ stays[j].num_detections = Cardinality(own)
            /\ SumOfDetections(stays) = Len(crecs)

\* C18 witness: a trajectory was emitted whose route returns to its first
\* detector, so that one stay spans the records of both visits.
C18_Witness ==
    \E n \in 1..Len(Emitted) :
        /\ Len(clusters[ClusterOf(Emitted[n])].route_sequence) = 3
        /\ Len(Emitted[n].stays) = 2
        /\ Emitted[n].stays[1].num_detections >= 2
        /\ Emitted[n].stays[1].estimated_duration_seconds
             > Emitted[n].stays[2].estimated_duration_seconds

\* C19 -- for every emitted trajectory whose route visits no detector twice,
\* the detector ids of its stays, in order, are its route sequence, also when
\* the earliest records of two detectors carry the same timestamp.
C19_StaysFollowRoute ==
    \A n \in 1..Len(Emitted) :
        LET route == clusters[ClusterOf(Emitted[n])].route_sequence
            stays == Emitted[n].stays
        IN  NoDuplicates(route)
              => [j \in 1..Len(stays) |-> stays[j].detector_id] = route

\* C19 witness: a trajectory without revisit was emitted in which the first
\* detections of two stays carry the same timestamp.
C19_Witness ==
    \E n \in 1..Len(Emitted) :
        /\ NoDuplicates(clusters[ClusterOf(Emitted[n])].route_sequence)
        /\ Len(Emitted[n].stays) >= 2
        /\ Emitted[n].stays[1].first_detection
             = Emitted[n].stays[2].first_detection
        /\ Emitted[n].stays[1].num_detections >= 2

\* ----------------------------------------------------------- group independence
\* Records i of groups ga and gb carry the same annotation: both unjudged, or
\* both judged by the cluster of the same number of their group.
SameAnnotations(ga, gb) ==
    /\ Len(records[ga]) = Len(records[gb])
    /\ \A i \in 1..Len(records[ga]) :
          /\ records[ga][i].is_judged = records[gb][i].is_judged
          /\ \A n \in 1..(MaxPasses + 1) :
                (records[ga][i].cluster_id = ClusterIdOf(ga, n))
                  = (records[gb][i].cluster_id = ClusterIdOf(gb, n))

\* Routes of the clusters returned for group g, in the order of extraction.
RECURSIVE RoutesOf(_, _)
RoutesOf(cs, g) ==
    IF cs = <<>> THEN <<>>
    ELSE LET rest == RoutesOf(SubSeq(cs, 1, Len(cs) - 1), g)
             c    == cs[Len(cs)]
         IN  IF c.group = g THEN Append(rest, c.route_sequence) ELSE rest

\* C20 -- Group independence: when the run is over, two groups that hold the
\* same records carry the same annotations and gave clusters with the same
\* routes, whatever group stands between them in the processing order.
C20_GroupIndependence ==
    (/\ pc \in {"done", "error", "key_error"}
     /\ run = 1
     /\ group_keys = <<GroupKey, OtherKey, TwinKey>>)
        => /\ SameAnnotations(GroupKey, TwinKey)
           /\ RoutesOf(AllClusters, GroupKey) = RoutesOf(AllClusters, TwinKey)

\* ------------------------------------------------------------ candidate judge
\* The main loop stands on an unjudged candidate.
AtCandidate ==
    /\ pc = "main_loop"
    /\ idx <= Len(CurRecs)
    /\ ~CurRecs[idx].is_judged

\* Seconds from the cluster's last accepted record to record i of the group.
ElapsedTo(i) ==
    CurRecs[i].timestamp - CurRecs[Last(state.cluster_records)].timestamp

\* The step accepts record i as a stay: it is judged and appended, it becomes
\* the last record, the route is unchanged.
AcceptedAsStay(i) ==
    /\ state'.cluster_records = Append(state.cluster_records, i)
    /\ state'.route_sequence = state.route_sequence
    /\ state'.prev_record = i
    /\ records'[CurKey][i].is_judged
    /\ records'[CurKey][i].cluster_id = state.cluster_id

\* The step accepts record i as a move: as a stay, but its detector is
\* appended to the route.
AcceptedAsMove(i) ==
    /\ state'.cluster_records = Append(state.cluster_records, i)
    /\ state'.route_sequence
          = Append(state.route_sequence, CurRecs[i].detector_id)
    /\ state'.prev_record = i
    /\ records'[CurKey][i].is_judged
    /\ records'[CurKey][i].cluster_id = state.cluster_id

\* The step starts a forward search at the candidate and changes neither the
\* cluster nor a record.
SearchStarted ==
    /\ pc' = "forward_search"
    /\ scan_idx' = idx
    /\ state' = state
    /\ records' = records

\* C21 -- Candidate judge, same-place branch: a candidate at the route-tail
\* detector is accepted as a stay when allow_long_stays is set or when it is
\* at most 900 s after the last accepted record (900 included); with a larger
\* gap a forward search starts; the route is never extended.
C21_SamePlaceBranch ==
    [][(AtCandidate
          /\ CurRecs[idx].detector_id = RouteTail(state.route_sequence))
        => /\ state'.route_sequence = state.route_sequence
           /\ IF allow_long_stays \/ ElapsedTo(idx) <= 900
              THEN AcceptedAsStay(idx) /\ idx' = idx + 1 /\ pc' = "main_loop"
              ELSE SearchStarted]_vars

\* C21 witness: without long stays, a record exactly 900 s after the seed at
\* the same detector has been accepted as a stay.
C21_Witness ==
    /\ pc = "main_loop"
    /\ ~allow_long_stays
    /\ Len(state.cluster_records) = 2
    /\ Len(state.route_sequence) = 1
    /\ CurRecs[state.cluster_records[2]].timestamp
         - CurRecs[state.cluster_records[1]].timestamp = 900

\* elapsed < min_travel_time * impossible_factor for a move between the
\* detectors from and to, where min_travel_time is distance / walker_speed
\* for a positive speed and 0 otherwise (compared on squares).
BelowThreshold(elapsed, from, to) ==
    LET dsq == DistanceSquared(Detectors[from], Detectors[to])
        a   == elapsed * walker_speed * ImpossibleFactorDen
        b   == WalkerSpeedDen * ImpossibleFactorNum
    IN  IF walker_speed <= 0 THEN elapsed < 0
        ELSE elapsed < 0 \/ a * a < dsq * b * b

\* C22 -- Candidate judge, move branch: for a candidate at a detector other
\* than the route tail (both in the registry) a forward search starts iff the
\* time elapsed since the cluster's last accepted record is below
\* min_travel_time * impossible_factor; otherwise, the exact threshold
\* included, the candidate is accepted as a move.  It is never accepted as a
\* stay, and the decision itself changes neither the cluster nor the record.
C22_MoveBranch ==
    [][(AtCandidate
          /\ CurRecs[idx].detector_id # RouteTail(state.route_sequence)
          /\ HasDetectors(RouteTail(state.route_sequence),
                          CurRecs[idx].detector_id))
        => LET last == CurRecs[Last(state.cluster_records)]
           IN  /\ last.detector_id = RouteTail(state.route_sequence)
               /\ state.prev_record = Last(state.cluster_records)
               /\ IF BelowThreshold(ElapsedTo(idx), last.detector_id,
                                    CurRecs[idx].detector_id)
                  THEN SearchStarted
                  ELSE /\ AcceptedAsMove(idx)
                       /\ idx' = idx + 1
                       /\ pc' = "main_loop"
               /\ records'[CurKey][idx].timestamp = CurRecs[idx].timestamp
               /\ records'[CurKey][idx].detector_id = CurRecs[idx].detector_id
               /\ records'[CurKey][idx].sequence_number
                    = CurRecs[idx].sequence_number]_vars

\* C22 witness: a record at B exactly 80 s (the threshold for 140 m) after
\* the last accepted record at A, a stay behind the seed, was accepted as a
\* move.
C22_Witness ==
    /\ pc = "main_loop"
    /\ walker_speed = WalkerSpeedNum
    /\ Len(state.cluster_records) = 3
    /\ state.route_sequence = <<"A", "B">>
    /\ CurRecs[state.cluster_records[2]].detector_id = "A"
    /\ CurRecs[state.cluster_records[3]].timestamp
         - CurRecs[state.cluster_records[2]].timestamp = 80

\* ------------------------------------------------------------- forward search
\* While a forward search runs, idx is its start index.  The cluster's last
\* record when the search started: the latest accepted record before idx.
LastAtStart == MaxOf({c \in Range(state.cluster_records) : c < idx})

\* Record j was unjudged when the running search evaluated it: it is unjudged
\* now, or this search has absorbed it.
UnjudgedAtScan(j) ==
    \/ ~CurRecs[j].is_judged
    \/ j >= idx /\ CurRecs[j].cluster_id = state.cluster_id

\* The cluster's last record when the search evaluates record i: the one at
\* the start, replaced by every same-place record absorbed at [idx, i).
RECURSIVE LastBefore(_)
LastBefore(i) ==
    IF i <= idx THEN LastAtStart
    ELSE LET p == LastBefore(i - 1)
             j == i - 1
         IN  IF /\ UnjudgedAtScan(j)
                /\ CurRecs[j].detector_id = RouteTail(state.route_sequence)
                /\ \/ allow_long_stays
                   \/ CurRecs[j].timestamp - CurRecs[p].timestamp <= 900
             THEN j ELSE p

\* Record i qualifies as the bridge target of the running search.
IsBridge(i) ==
    /\ ~CurRecs[i].is_judged
    /\ CurRecs[i].detector_id # RouteTail(state.route_sequence)
    /\ ~InSeq(CurRecs[i].detector_id, state.route_sequence)
    /\ ~BelowThreshold(CurRecs[i].timestamp - CurRecs[LastBefore(i)].timestamp,
                       CurRecs[LastBefore(i)].detector_id,
                       CurRecs[i].detector_id)

\* Every record of the current group is at a detector of the registry.
GroupInRegistry ==
    \A i \in 1..Len(CurRecs) : CurRecs[i].detector_id \in DetectorIds

\* C23 -- Forward search result: a search started at idx returns the smallest
\* index i >= idx of an unjudged record whose detector is neither the route
\* tail nor anywhere in the route and that is feasible from the cluster's last
\* record as updated by the same-place records absorbed at [idx, i); it
\* returns None exactly when there is no such index.
C23_SearchResult ==
    [][(pc = "forward_search" /\ pc' # "forward_search" /\ GroupInRegistry)
        => LET bridges == {i \in idx..Len(CurRecs) : IsBridge(i)}
           IN  /\ pc' \in {"main_loop", "emit"}
               /\ pc' = "emit" <=> bridges = {}
               /\ pc' = "main_loop" =>
                     /\ scan_idx \in bridges
                     /\ \A i \in bridges : scan_idx <= i
                     /\ state'.prev_record = scan_idx]_vars

\* C23 witness: a search has returned None although a record behind its
\* start was feasible from the last record the cluster had at the start: a
\* same-place record absorbed before it moved the last record forward.
C23_Witness ==
    /\ pc = "emit"
    /\ scan_idx = Len(CurRecs) + 1
    /\ idx <= Len(CurRecs)
    /\ GroupInRegistry
    /\ \E i \in idx..Len(CurRecs) :
          /\ ~CurRecs[i].is_judged
          /\ ~InSeq(CurRecs[i].detector_id, state.route_sequence)
          /\ LastBefore(i) # LastAtStart
          /\ ~BelowThreshold(
                 CurRecs[i].timestamp - CurRecs[LastAtStart].timestamp,
                 CurRecs[LastAtStart].detector_id, CurRecs[i].detector_id)

\* The scan stands on a record.
AtScanRecord == pc = "forward_search" /\ scan_idx <= Len(CurRecs)

\* The scan steps over its record and changes neither the cluster nor a
\* record.
Skipped ==
    /\ scan_idx' = scan_idx + 1
    /\ pc' = "forward_search"
    /\ state' = state
    /\ records' = records

\* C24 -- Forward search absorption: an unjudged record at the route-tail
\* detector met by the scan is absorbed (judged, appended to the cluster, made
\* its last record, route unchanged) when allow_long_stays is set or it is at
\* most 900 s after the current last record, and skipped otherwise; when the
\* search returns None the cluster ends with every absorbed record in it.
C24_Absorption ==
    /\ [][(AtScanRecord
             /\ ~CurRecs[scan_idx].is_judged
             /\ CurRecs[scan_idx].detector_id = RouteTail(state.route_sequence))
           => IF allow_long_stays \/ ElapsedTo(scan_idx) <= 900
              THEN /\ AcceptedAsStay(scan_idx)
                   /\ scan_idx' = scan_idx + 1
                   /\ pc' = "forward_search"
              ELSE Skipped]_vars
    /\ [][(pc = "forward_search" /\ pc' = "emit")
           => state' = state /\ records' = records]_vars
    /\ [][pc = "emit"
           => /\ Len(clusters') = Len(clusters) + 1
              /\ Last(clusters').cluster_records = state.cluster_records
              /\ Last(clusters').route_sequence = state.route_sequence
              /\ records' = records]_vars

\* C24 witness: a search has returned None and the extractor returns the
\* cluster, which holds a record the search absorbed exactly 900 s after the
\* previous one.
C24_Witness ==
    /\ pc = "emit"
    /\ ~allow_long_stays
    /\ scan_idx = Len(CurRecs) + 1
    /\ idx <= Len(CurRecs)
    /\ \E k \in 2..Len(state.cluster_records) :
          /\ state.cluster_records[k] >= idx
          /\ CurRecs[state.cluster_records[k]].timestamp
               - CurRecs[state.cluster_records[k - 1]].timestamp = 900
          /\ CurRecs[state.cluster_records[k]].cluster_id = state.cluster_id

\* Position of the extractor in the current group: every index below it has
\* been passed by the main loop or by a forward search of this pass.
Position == IF pc = "forward_search" THEN scan_idx ELSE idx

\* C25 -- Forward search frame: a scan step that does not take its record
\* into the cluster leaves every record as it is; an unjudged record that the
\* extractor has passed stays unjudged for the rest of the pass, whether the
\* search finds a bridge or returns None: the extractor never goes back to a
\* passed record, changes no unjudged record behind its position, and the
\* groups already handled in the pass are not touched again before it ends.
C25_SearchFrame ==
    /\ [][(AtScanRecord /\ state'.cluster_records = state.cluster_records)
           => records' = records]_vars
    /\ [][(pc \in {"main_loop", "forward_search"}
             /\ pc' \in {"main_loop", "forward_search"})
           => (IF pc' = "forward_search" THEN scan_idx' ELSE idx')
                 >= Position]_vars
    /\ [][(pc \in {"main_loop", "forward_search", "emit"})
           => \A i \in 1..Len(CurRecs) :
                 (i < Position /\ ~CurRecs[i].is_judged)
                    => records'[CurKey][i] = CurRecs[i]]_vars
    /\ [][(pc \in {"group_loop", "main_loop", "forward_search", "emit",
                    "pass_end"})
           => \A k \in 1..Len(group_keys) :
                 (k < gidx \/ pc = "pass_end")
                    => records'[group_keys[k]] = records[group_keys[k]]]_vars

\* C25 witness: the run is over; a record lying between two records of the
\* group's first cluster was skipped by the search that found the bridge and
\* was judged by the second pass.
C25_Witness ==
    /\ pc = "done"
    /\ run = 1
    /\ \E g \in Range(group_keys) : \E i, j, k \in 1..Len(records[g]) :
          /\ i < j /\ j < k
          /\ records[g][i].cluster_id = ClusterIdOf(g, 1)
          /\ records[g][j].cluster_id = ClusterIdOf(g, 2)
          /\ records[g][k].cluster_id = ClusterIdOf(g, 1)

\* ------------------------------------------------------- single-pass extractor
\* Number of clusters built so far from group g.
ClustersOf(g) ==
    Cardinality({k \in 1..Len(AllClusters) : AllClusters[k].group = g})

\* Group number k of the dict order has had its invocation in each of the
\* passes_run passes started so far.
HandledInPass(k) ==
    \/ pc \in {"pass_start", "pass_end", "final", "done", "error", "key_error"}
    \/ pc \in {"main_loop", "forward_search", "emit"} /\ k <= gidx
    \/ pc = "group_loop" /\ k < gidx

\* C26 -- Single-pass extractor: one invocation on a group creates at most
\* one cluster (after p passes a group has at most p clusters, and at most
\* p - 1 before its invocation in pass p); the cluster is seeded from the
\* first unjudged record of the list, whose detector opens the route, and no
\* other record is changed by the seeding; when the group has no unjudged
\* record the invocation yields no cluster and changes no record.
C26_SinglePassExtractor ==
    /\ [](run = 1 =>
            \A k \in 1..Len(group_keys) :
               ClustersOf(group_keys[k])
                  <= IF HandledInPass(k) THEN passes_run ELSE passes_run - 1)
    /\ [][(pc = "group_loop" /\ gidx <= Len(group_keys))
           => LET unjudged == {i \in 1..Len(CurRecs) : ~CurRecs[i].is_judged}
              IN  IF unjudged = {}
                  THEN /\ records' = records
                       /\ clusters' = clusters
                       /\ state' = NoState
                       /\ pc' = "group_loop" /\ gidx' = gidx + 1
                  ELSE LET f == MinOf(unjudged)
                       IN  /\ pc' = "main_loop"
                           /\ state'.cluster_records = <<f>>
                           /\ state'.route_sequence = <<CurRecs[f].detector_id>>
                           /\ records'[CurKey][f].is_judged
                           /\ records'[CurKey][f].cluster_id = state'.cluster_id
                           /\ \A g \in Range(group_keys) :
                                 \A i \in 1..Len(records[g]) :
                                    (g # CurKey \/ i # f)
                                       => records'[g][i] = records[g][i]]_vars

\* C26 witness: the second pass has seeded a cluster from the first unjudged
\* record of a group, which stands between two records judged by pass 1.
C26_Witness ==
    /\ pc = "main_loop"
    /\ run = 1
    /\ passes_run = 2
    /\ Len(state.cluster_records) = 1
    /\ idx = state.cluster_records[1] + 1
    /\ \E i, k \in 1..Len(CurRecs) :
          /\ i < state.cluster_records[1] /\ state.cluster_records[1] < k
          /\ CurRecs[i].cluster_id = ClusterIdOf(CurKey, 1)
          /\ CurRecs[k].cluster_id = ClusterIdOf(CurKey, 1)

\* C27 -- Bridging step: when the search started by the judge returns index
\* f, the extractor accepts record f as a move that lengthens the route by
\* exactly one element and goes on with candidate f + 1; when the search
\* returns None the extractor returns the cluster as it is, and the cluster
\* takes no further record in this pass.
C27_BridgingStep ==
    /\ [][(pc = "forward_search" /\ pc' = "main_loop")
           => /\ AcceptedAsMove(scan_idx)
              /\ Len(state'.route_sequence) = Len(state.route_sequence) + 1
              /\ idx' = scan_idx + 1]_vars
    /\ [][(pc = "forward_search" /\ pc' \notin {"forward_search", "main_loop",
                                                "key_error"})
           => /\ pc' = "emit"
              /\ scan_idx = Len(CurRecs) + 1
              /\ state' = state
              /\ records' = records]_vars
    /\ [][pc = "emit"
           => /\ pc' = "group_loop"
              /\ gidx' = gidx + 1
              /\ state' = NoState
              /\ Last(clusters').cluster_id = state.cluster_id
              /\ Last(clusters').cluster_records = state.cluster_records]_vars
    /\ [](\A k \in 1..Len(clusters) : \A i \in 1..Len(records[clusters[k].group]) :
             records[clusters[k].group][i].cluster_id = clusters[k].cluster_id
                => InSeq(i, clusters[k].cluster_records))

\* C27 witness: a search has stepped over an unjudged record and returned a
\* bridge target f; the extractor accepted it as a move and then accepted
\* record f + 1 as well.
C27_Witness ==
    /\ pc = "main_loop"
    /\ Len(state.cluster_records) >= 3
    /\ Len(state.route_sequence) >= 2
    /\ Last(state.cluster_records) = scan_idx + 1
    /\ state.cluster_records[Len(state.cluster_records) - 1] = scan_idx
    /\ CurRecs[scan_idx].detector_id
         # CurRecs[state.cluster_records[Len(state.cluster_records) - 2]].detector_id
    /\ \E j \in 1..(scan_idx - 1) : ~CurRecs[j].is_judged

\* ------------------------------------------------------------ sequence numbers
\* Record i of the current group is a sequence anomaly against the cluster's
\* last record: the sequence numbers are more than 64 apart and the move is
\* infeasible.
FlaggedAnomaly(i) ==
    LET last == CurRecs[Last(state.cluster_records)]
    IN  /\ Abs(CurRecs[i].sequence_number - last.sequence_number) > 64
        /\ BelowThreshold(ElapsedTo(i), last.detector_id,
                          CurRecs[i].detector_id)

\* The records of the current group with the sequence number of record i
\* replaced by that of the cluster's last record.
WithoutJump(i) ==
    [CurRecs EXCEPT ![i] =
        [@ EXCEPT !.sequence_number =
            CurRecs[Last(state.cluster_records)].sequence_number]]

\* C28 -- Sequence-number asymmetry: in the candidate judge a sequence
\* anomaly never changes the returned action (the action is the one the same
\* candidate gets without the sequence jump); in the forward search a scanned
\* record flagged as a sequence anomaly is skipped and is never taken as the
\* bridge target.
C28_SequenceAsymmetry ==
    /\ [](AtCandidate /\ GroupInRegistry =>
            JudgeCandidateRecord(state, CurRecs, CurRecs[idx], Config)
               = JudgeCandidateRecord(state, WithoutJump(idx),
                                      WithoutJump(idx)[idx], Config))
    /\ [][(AtCandidate /\ GroupInRegistry /\ FlaggedAnomaly(idx))
           => SearchStarted]_vars
    /\ [][(AtScanRecord /\ GroupInRegistry /\ FlaggedAnomaly(scan_idx))
           => Skipped]_vars

\* C28 witness: the judge has started a search at a candidate flagged as a
\* sequence anomaly, and the scan has skipped that record and stands on the
\* next one.
C28_Witness ==
    /\ pc = "forward_search"
    /\ scan_idx = idx + 1
    /\ GroupInRegistry
    /\ ~CurRecs[idx].is_judged
    /\ FlaggedAnomaly(idx)

\* Sequence numbers a record may carry instead of its own: the ends of the
\* range and both sides of the threshold.
AnySeq == {0, 64, 65, 4095}

\* The records of the current group with the sequence numbers of records i
\* and j replaced by q1 and q2.
Renumbered(i, q1, j, q2) ==
    [CurRecs EXCEPT ![i] = [@ EXCEPT !.sequence_number = q1],
                    ![j] = [@ EXCEPT !.sequence_number = q2]]

\* _evaluate_scan_record with the is_sequence_anomaly check taken out.
ScanActionWithoutAnomalyCheck(st, recs, scan, config) ==
    LET prev == recs[st.prev_record]
        time_diff == scan.timestamp - prev.timestamp
    IN  IF scan.is_judged THEN "SKIP"
        ELSE IF scan.detector_id = RouteTail(st.route_sequence)
        THEN IF config.allow_long_stays \/ time_diff <= 900
             THEN "ADD_AND_CONTINUE" ELSE "SKIP"
        ELSE IF InSeq(scan.detector_id, st.route_sequence) THEN "SKIP"
        ELSE IF ~HasDetectors(prev.detector_id, scan.detector_id)
             THEN "KEY_ERROR"
        ELSE IF BelowThreshold(time_diff, prev.detector_id, scan.detector_id)
             THEN "SKIP"
        ELSE "FOUND"

\* C29 -- Sequence-number noninterference: no decision of a run depends on
\* a sequence number.  Whatever sequence numbers the cluster's last record
\* and the record under decision carry, the judge and the scan evaluation
\* give the same action, so runs on record sets that differ in sequence
\* numbers only take the same steps and produce the same annotations and
\* trajectories; and the scan evaluation gives the action it gives without
\* the is_sequence_anomaly check.
C29_SequenceNoninterference ==
    /\ AtCandidate =>
          \A q1, q2 \in AnySeq :
             LET recs == Renumbered(state.prev_record, q1, idx, q2)
             IN  JudgeCandidateRecord(state, recs, recs[idx], Config)
                   = JudgeCandidateRecord(state, CurRecs, CurRecs[idx], Config)
    /\ AtScanRecord =>
          /\ \A q1, q2 \in AnySeq :
                LET recs == Renumbered(state.prev_record, q1, scan_idx, q2)
                IN  EvaluateScanRecord(state, recs, recs[scan_idx], Config)
                      = EvaluateScanRecord(state, CurRecs, CurRecs[scan_idx],
                                           Config)
          /\ EvaluateScanRecord(state, CurRecs, CurRecs[scan_idx], Config)
               = ScanActionWithoutAnomalyCheck(state, CurRecs,
                                               CurRecs[scan_idx], Config)

\* C29 witness: the scan stands on an unjudged record at a detector outside
\* the route that is_sequence_anomaly flags: its sequence number is 65 away
\* from the last record's and it cannot be reached in time.
C29_Witness ==
    /\ AtScanRecord
    /\ GroupInRegistry
    /\ ~CurRecs[scan_idx].is_judged
    /\ ~InSeq(CurRecs[scan_idx].detector_id, state.route_sequence)
    /\ FlaggedAnomaly(scan_idx)

\* ----------------------------------------------------------------- convergence
AllJudged(g) == \A i \in 1..Len(records[g]) : records[g][i].is_judged

\* C30 -- Convergence leaves no residue: when a pass ends, every group that
\* still has an unjudged record has got a cluster, hence a judged record, in
\* every pass so far; so when the driver has stopped after a pass that judged
\* no new record every record of every group is judged, and records are left
\* unjudged only when it stopped at pass number max_passes after a pass that
\* judged something.
C30_NoResidue ==
    /\ (run = 1 /\ pc \in {"pass_end", "final", "done"}) =>
          \A g \in Range(group_keys) :
             ~AllJudged(g) => ClustersOf(g) = passes_run
    /\ pc \in {"final", "done"} =>
          /\ JudgedCount(records) = judged_before => Unjudged = 0
          /\ Unjudged > 0 =>
                /\ passes_run = max_passes
                /\ JudgedCount(records) > judged_before

\* C30 witness: the driver has stopped because its second pass over three
\* groups, each with two records or more, judged nothing new.
C30_Witness ==
    /\ pc = "done"
    /\ run = 1
    /\ passes_run = 2
    /\ JudgedCount(records) = judged_before
    /\ Len(group_keys) = 3
    /\ \A g \in Range(group_keys) : Len(records[g]) >= 2

\* ---------------------------------------------------------- position, identifiers
\* C31 -- Position consistency: in every ClusterState after seeding the route
\* is not empty, prev_record is the record accepted last, and its detector is
\* the last element of the route.
C31_PositionConsistency ==
    state # NoState =>
        /\ state.route_sequence # <<>>
        /\ state.cluster_records # <<>>
        /\ state.prev_record = Last(state.cluster_records)
        /\ CurRecs[state.prev_record].detector_id
             = Last(state.route_sequence)

\* C31 witness: a cluster whose route has come back to its first detector
\* by a main-loop move; its last record is at that detector.
C31_Witness ==
    /\ pc = "main_loop"
    /\ Len(state.route_sequence) = 3
    /\ state.route_sequence[1] = state.route_sequence[3]
    /\ CurRecs[state.prev_record].detector_id = state.route_sequence[1]
    /\ CurRecs[state.prev_record].is_judged

\* C32 -- Trajectory identifiers: the trajectory_id values of the trajectories
\* returned by one run of the driver are pairwise distinct, also across
\* passes.
C32_DistinctTrajectoryIds ==
    (pc = "done" /\ run = 1) =>
        \A i, j \in 1..Len(all_trajectories) :
            all_trajectories[i].trajectory_id = all_trajectories[j].trajectory_id
                => i = j

\* The identifier "<g>_cluster<k>" the claim gives the cluster of group g in
\* pass k.
NamedByPass(g, k) == g \o "_cluster" \o ToString(k)

\* Number of passes of the current run in which group number p has been
\* reached by the loop of cluster_records.
PassesReached(p) ==
    IF pc \in {"pass_start", "pass_end", "final", "done", "error"}
    THEN passes_run
    ELSE IF p < gidx \/ (p = gidx /\ pc # "group_loop")
         THEN passes_run
         ELSE passes_run - 1

\* Every judged record of a group carries an id that the group's counter has
\* reached, empty groups never advance their counter, a non-empty group's
\* counter equals the number of passes that reached it, and no identifier is
\* shared between groups.
CountersAgree ==
    /\ \A p \in 1..Len(group_keys) :
          LET g == group_keys[p]
          IN  /\ cluster_counter[g] =
                    IF records[g] = <<>> THEN 0 ELSE PassesReached(p)
              /\ \A i \in 1..Len(records[g]) :
                    records[g][i].is_judged =>
                        \E k \in 1..cluster_counter[g] :
                            records[g][i].cluster_id = NamedByPass(g, k)
    /\ \A p, q \in 1..Len(group_keys) :
          \A i \in 1..Len(records[group_keys[p]]) :
             \A j \in 1..Len(records[group_keys[q]]) :
                LET r1 == records[group_keys[p]][i]
                    r2 == records[group_keys[q]][j]
                IN  (r1.is_judged /\ r2.is_judged
                        /\ r1.cluster_id = r2.cluster_id) => p = q

\* A step of the first run: counters never decrease, a judged record keeps
\* its annotation, and a record judged by the step gets the id numbered by
\* the running pass.
CounterStep ==
    (run = 1 /\ run' = 1) =>
        /\ \A g \in Range(group_keys) :
              cluster_counter'[g] >= cluster_counter[g]
        /\ \A g \in Range(group_keys) :
              \A i \in 1..Len(records[g]) :
                 /\ records[g][i].is_judged => records'[g][i] = records[g][i]
                 /\ (~records[g][i].is_judged /\ records'[g][i].is_judged) =>
                       /\ g = CurKey
                       /\ records'[g][i].cluster_id
                            = NamedByPass(g, passes_run)

\* C33 -- Cluster identifiers: within one driver run the per-group counter is
\* threaded through the passes and only increases; it advances in every pass
\* for every non-empty group, also when the group yields no cluster; the
\* records accepted for group g in pass k get the id "<g>_cluster<k>", so two
\* records with the same cluster_id are of the same group and were accepted
\* in the same pass.
C33_ClusterIdentifiers ==
    /\ [](run = 1 => CountersAgree)
    /\ [][CounterStep]_vars

\* C33 witness: after two passes a record of the second pass carries the id
\* numbered 2 while a record of the first pass still carries the id numbered 1.
C33_Witness ==
    /\ run = 1
    /\ pc = "done"
    /\ passes_run = 2
    /\ \E g \in Range(group_keys) :
          /\ cluster_counter[g] = 2
          /\ \E i, j \in 1..Len(records[g]) :
                /\ records[g][i].cluster_id = NamedByPass(g, 1)
                /\ records[g][j].cluster_id = NamedByPass(g, 2)

\* ------------------------------------------- trajectories and annotations
\* The records, as <<group, index>>, that are annotated with cluster id cid.
Annotated(cid) ==
    UNION {{<<g, i>> : i \in {j \in 1..Len(records[g]) :
                                 /\ records[g][j].is_judged
                                 /\ records[g][j].cluster_id = cid}} :
             g \in Range(group_keys)}

\* C34 -- Trajectory/annotation agreement: every emitted trajectory has exactly
\* one cluster id; the number of records annotated with that id equals the sum
\* of num_detections over the trajectory's stays, and the detectors of those
\* records are the detectors of the trajectory's route; the records of a
\* discarded single-detector cluster stay judged with a cluster id that no
\* trajectory references.
C34_TrajectoryAnnotationAgreement ==
    /\ \A n \in 1..Len(Emitted) :
          LET t   == Emitted[n]
              own == Annotated(t.cluster_ids[1])
          IN  /\ Len(t.cluster_ids) = 1
              /\ Cardinality(own) = SumOfDetections(t.stays)
              /\ \E k \in 1..Len(clusters) :
                    /\ clusters[k].cluster_id = t.cluster_ids[1]
                    /\ t.route = Join(clusters[k].route_sequence)
                    /\ Range(clusters[k].route_sequence)
                         = {records[gi[1]][gi[2]].detector_id : gi \in own}
    /\ \A k \in 1..Len(clusters) :
          Len(clusters[k].route_sequence) < 2 =>
              /\ Annotated(clusters[k].cluster_id)
                   = {<<clusters[k].group, i>> :
                         i \in Range(clusters[k].cluster_records)}
              /\ \A n \in 1..Len(Emitted) :
                    \A c \in 1..Len(Emitted[n].cluster_ids) :
                       Emitted[n].cluster_ids[c] # clusters[k].cluster_id

\* C34 witness: a finished run that returned a trajectory of three records
\* and also discarded a single-detector cluster.
C34_Witness ==
    /\ pc = "done"
    /\ run = 1
    /\ \E n \in 1..Len(all_trajectories) :
          Cardinality(Annotated(all_trajectories[n].cluster_ids[1])) = 3
    /\ \E k \in 1..Len(clusters) :
          /\ Len(clusters[k].route_sequence) = 1
          /\ Cardinality(Annotated(clusters[k].cluster_id)) >= 1

\* ---------------------------------------------------------------- empty input
\* C35 -- Empty input: when the grouped record set contains no record (no
\* group, or only empty groups) the driver terminates normally after one pass
\* and returns an empty trajectory list and the unchanged record set, without
\* entering an error state.
C35_EmptyInputTerminates ==
    TotalRecords = 0 =>
        /\ pc # "error"
        /\ pc \in {"final", "done"} =>
              /\ passes_run = 1
              /\ all_trajectories = <<>>
              /\ \A g \in Range(group_keys) : records[g] = <<>>

\* -------------------------------------------------------------- scan progress
\* C36 -- Scan progress: a forward search starts at the triggering index and
\* steps over the triggering record without taking it, so a bridge target is
\* strictly behind the trigger and the main loop resumes strictly behind it;
\* every other iteration of the main loop moves the index on by one, and the
\* index stays within 2..len(records)+1, so one extractor invocation ends
\* after at most len(records) iterations.
C36_ScanProgress ==
    /\ [][(pc = "main_loop" /\ pc' = "forward_search")
           => scan_idx' = idx /\ idx' = idx]_vars
    /\ [][(pc = "forward_search" /\ scan_idx = idx) => Skipped]_vars
    /\ [][(pc = "forward_search" /\ pc' = "main_loop")
           => /\ scan_idx > idx
              /\ idx' > scan_idx
              /\ state'.prev_record = scan_idx]_vars
    /\ [][(pc = "main_loop" /\ pc' = "main_loop") => idx' = idx + 1]_vars
    /\ [](pc \in {"main_loop", "forward_search"}
           => /\ 2 <= idx /\ idx <= Len(CurRecs) + 1
              /\ pc = "forward_search"
                   => idx <= scan_idx /\ scan_idx <= Len(CurRecs) + 1)

\* C36 witness: a search triggered by an infeasible move has stepped over the
\* triggering record, which is still unjudged, and stands on a record of
\* another detector that lies far enough in time to be reached.
C36_Witness ==
    /\ pc = "forward_search"
    /\ scan_idx = idx + 1
    /\ scan_idx <= Len(CurRecs)
    /\ ~CurRecs[idx].is_judged
    /\ CurRecs[idx].detector_id # RouteTail(state.route_sequence)
    /\ ~CurRecs[scan_idx].is_judged
    /\ CurRecs[scan_idx].detector_id # RouteTail(state.route_sequence)
    /\ CurRecs[scan_idx].timestamp - CurRecs[state.prev_record].timestamp >= 80

====
